---- MODULE Spec2Model ----
(***************************************************************************)
(* Model of ghost_flight: the alert engine (check_alerts, clear_alerts,    *)
(* update_alerts_config), the OAuth2 token cache (obtener_token), the      *)
(* classification of callsigns (classify_flight), the /vuelos poll cycle   *)
(* and the read endpoints of app.py, and the polling loop of collector.py. *)
(*                                                                         *)
(* Conventions.                                                            *)
(*  - A Python value that may be None is a sequence: <<>> is None and      *)
(*    <<n>> is the number n.                                               *)
(*  - now is the reading of time.time() in milliseconds, so that           *)
(*    int(time.time() * 1000) is now itself.                               *)
(*  - An alert keeps the fields the rules read or the claims speak of:     *)
(*    id, type, severity and flight_data.icao24 (0 when flight_data has no *)
(*    icao24, as for high_count).  title, message and timestamp are        *)
(*    written once and never read by the engine.                           *)
(*  - A Python string is the sequence of its characters, so that strip,    *)
(*    upper and startswith are computed; None and "" are both <<>>, and    *)
(*    the code treats them alike (both are falsy at every test of a        *)
(*    callsign).                                                           *)
(***************************************************************************)
EXTENDS Integers, Sequences, FiniteSets, TLC

VARIABLES
    alerts_history,      \* app.py:39   list of alerts, oldest first
    alerts_config,       \* app.py:40   rule flags and thresholds
    seen_cargo_flights,  \* app.py:88   icao24 already alerted as cargo
    token_cache,         \* app.py:34   access_token / expires_at
    now,                 \* the clock, in milliseconds
    \* the last check_alerts call: its argument, its return value and the
    \* history and seen set as they stood when it was entered
    vuelos, new_alerts, pre_history, pre_seen,
    lastOp,              \* name of the last handler that ran
    \* history variables
    produced,            \* every alert produced since the last clear
    cleared_seen,        \* seen_cargo_flights as the last clear found it
    passes_since_clear,  \* check_alerts passes since the last clear
    ops,                 \* check_alerts passes and config updates so far
    \* obtener_token callers (threads of the Flask server)
    pc,                  \* where each caller stands in obtener_token
    resp,                \* json_data of each caller's exchange
    ret,                 \* what each caller's last call returned
    chk,                 \* what each caller's last check at line 94 read
    exchanges,           \* credential exchanges answered so far
    expires_by,          \* the exchange whose caller wrote expires_at
    \* the /vuelos handler and the store
    OPERATOR_MAP,        \* app.py:75   configured prefix tables
    store,               \* the documents of the collection "flights"
    db_up,               \* app.py:54 / collector.py:37  db is not None
    req,                 \* locals of each thread serving GET /vuelos
    last_upsert,         \* per icao24, the payload of the last upsert
    prev_upsert,         \* per icao24, the payload of the upsert before it
    cycles,              \* poll cycles started so far
    \* the collector process
    RUNNING,             \* collector.py:28
    cpc,                 \* where the collector stands in main()
    slept,               \* collector.py:121
    col,                 \* locals of the collector's current cycle
    collector_cache,     \* token_cache of the collector process
    sig,                 \* first shutdown signal: where it arrived, and the
                         \* sleeps completed after it
    \* classify_flight called on its own
    callsign, tipo,
    \* the read endpoints: the last one served and what it answered
    read

vars == <<alerts_history, alerts_config, seen_cargo_flights, token_cache, now,
          vuelos, new_alerts, pre_history, pre_seen, lastOp,
          produced, cleared_seen, passes_since_clear, ops,
          pc, resp, ret, chk, exchanges, expires_by,
          OPERATOR_MAP, store, db_up, req, last_upsert, prev_upsert, cycles,
          RUNNING, cpc, slept, col, collector_cache, sig, callsign, tipo,
          read>>

alertVars == <<alerts_history, alerts_config, seen_cargo_flights,
               vuelos, new_alerts, pre_history, pre_seen, lastOp,
               produced, cleared_seen, passes_since_clear, ops>>

tokenVars == <<token_cache, pc, resp, ret, chk, exchanges, expires_by>>

cycleVars == <<store, db_up, req, last_upsert, prev_upsert, cycles>>

collectorVars == <<RUNNING, cpc, slept, col, collector_cache, sig>>

classifyVars == <<OPERATOR_MAP, callsign, tipo>>

readVars == <<read>>

\* What the alert engine and obtener_token, called on their own, leave alone.
serviceVars == <<cycleVars, collectorVars, classifyVars, readVars>>

-----------------------------------------------------------------------------
(* Bounds of the model *)

MaxOps == 3           \* passes and config updates in one behaviour of Spec
MaxBulkOps == 3       \* passes and config updates in one behaviour of SpecBulk
BulkLen == 40         \* length of the large batch of SpecBulk
NumCallers == 2       \* threads calling obtener_token
MaxExchanges == 2     \* credential exchanges the token endpoint answers
FleetLen == 34        \* aircraft of the fleet of SpecReaders
NumRequests == 2      \* threads serving GET /vuelos
MaxCycles == 2        \* poll cycles in one behaviour of SpecCycle
MaxThreadCycles == 2  \* requests taken in one behaviour of SpecThreads
MaxThreadOps == 2     \* passes and updates in one behaviour of SpecThreads
MaxCallsignLen == 3   \* characters of a callsign given to classify_flight
INTERVAL == 2         \* collector.py:29, seconds, from COLLECT_INTERVAL
MaxSeconds == 2       \* the clock of the token specifications stops here

(* Program constants *)

HistoryCap == 100          \* app.py:240
HighCountWindow == 5       \* app.py:192
DedupWindow == 10          \* app.py:213, 233
HighCountThreshold == 10   \* app.py:43
LowAltitudeThreshold == 3000   \* app.py:45
AbnormalSpeedThreshold == 500  \* app.py:47
DefaultExpiresIn == 1800       \* app.py:112
MsPerSecond == 1000            \* app.py:163

-----------------------------------------------------------------------------
(* Python values *)

None == <<>>
Some(n) == <<n>>

\* Python truthiness of a number or None: None and 0 are falsy.
Truthy(x) == x # None /\ x[1] # 0

Max(a, b) == IF a >= b THEN a ELSE b

\* s[-n:]
LastN(s, n) == SubSeq(s, Max(1, Len(s) - n + 1), Len(s))

-----------------------------------------------------------------------------
(* The alert engine *)

DefaultConfig ==
    [cargo_entry_enabled |-> TRUE,
     high_count_enabled |-> TRUE,
     high_count_threshold |-> HighCountThreshold,
     low_altitude_enabled |-> TRUE,
     low_altitude_threshold |-> LowAltitudeThreshold,
     abnormal_speed_enabled |-> TRUE,
     abnormal_speed_threshold |-> AbnormalSpeedThreshold,
     sound_enabled |-> TRUE]

\* dict.update(new_config): the keys of new_config replace, the others stay.
ConfigMerge(cfg, new_config) ==
    [k \in DOMAIN cfg |->
        IF k \in DOMAIN new_config THEN new_config[k] ELSE cfg[k]]

NoIcao == 0

Alert(id, type, severity, icao24) ==
    [id |-> id, type |-> type, severity |-> severity, icao24 |-> icao24]

\* The clock during one pass: it reads t, and t + 1 from the tick-th alert
\* construction on (tick = 0: the clock does not advance during the pass).
\* Constructions are numbered by the place of the record in its loop.
ClockAt(t, tick, pos) == IF tick > 0 /\ pos >= tick THEN t + 1 ELSE t

CargoPos(n, i) == i
HighPos(n) == n + 1
LowPos(n, i) == n + 1 + i
SpeedPos(n, i) == 2 * n + 1 + i

\* Lines 158-175: the loop over vuelos; seen_cargo_flights is updated as the
\* loop goes.  The result is the new seen set and the alerts appended.
RECURSIVE CargoLoop(_, _, _, _, _, _)
CargoLoopNoAdd(vs, i, seen, acc, t, tick) ==
    IF i > Len(vs) THEN [seen |-> seen, alerts |-> acc]
    ELSE IF vs[i].type = "carga" /\ vs[i].icao24 \notin seen
         THEN CargoLoop(vs, i + 1, seen,
                  Append(acc, Alert(ClockAt(t, tick, CargoPos(Len(vs), i)),
                                    "cargo_entry", "warning", vs[i].icao24)),
                  t, tick)
         ELSE CargoLoop(vs, i + 1, seen, acc, t, tick)
CargoLoop(vs, i, seen, acc, t, tick) ==
    IF i > Len(vs) THEN [seen |-> seen, alerts |-> acc]
    ELSE IF vs[i].type = "carga" /\ vs[i].icao24 \notin seen
         THEN CargoLoop(vs, i + 1, seen \cup {vs[i].icao24},
                  Append(acc, Alert(ClockAt(t, tick, CargoPos(Len(vs), i)),
                                    "cargo_entry", "warning", vs[i].icao24)),
                  t, tick)
         ELSE CargoLoop(vs, i + 1, seen, acc, t, tick)

\* The rule of cargo_entry keeping its seen set up when it is disabled.
CargoRuleSeenUngated(vs, cfg, seen, t, tick) ==
    IF cfg.cargo_entry_enabled
    THEN CargoLoop(vs, 1, seen, <<>>, t, tick)
    ELSE [seen |-> CargoLoop(vs, 1, seen, <<>>, t, tick).seen,
          alerts |-> <<>>]

CargoRule(vs, cfg, seen, t, tick) ==
    IF cfg.cargo_entry_enabled
    THEN CargoLoop(vs, 1, seen, <<>>, t, tick)
    ELSE [seen |-> seen, alerts |-> <<>>]

\* Lines 178-193.
HighCountRuleGeq(vs, cfg, hist, t, tick) ==
    IF cfg.high_count_enabled /\ Len(vs) >= cfg.high_count_threshold
    THEN IF LET recent == LastN(hist, HighCountWindow)
            IN  ~ \E k \in DOMAIN recent : recent[k].type = "high_count"
         THEN << Alert(ClockAt(t, tick, HighPos(Len(vs))) + 1,
                       "high_count", "info", NoIcao) >>
         ELSE <<>>
    ELSE <<>>
HighCountRule(vs, cfg, hist, t, tick) ==
    IF cfg.high_count_enabled /\ Len(vs) > cfg.high_count_threshold
    THEN IF LET recent == LastN(hist, HighCountWindow)
            IN  ~ \E k \in DOMAIN recent : recent[k].type = "high_count"
         THEN << Alert(ClockAt(t, tick, HighPos(Len(vs))) + 1,
                       "high_count", "info", NoIcao) >>
         ELSE <<>>
    ELSE <<>>

\* any(a.flight_data.icao24 == icao24 and a.type == type for a in hist[-10:])
Recent(hist, type, icao24) ==
    LET recent == LastN(hist, DedupWindow)
    IN  \E k \in DOMAIN recent :
            recent[k].icao24 = icao24 /\ recent[k].type = type

\* Lines 196-214.
RECURSIVE LowAltitudeLoop(_, _, _, _, _, _, _)
LowAltitudeLoop(vs, i, cfg, hist, acc, t, tick) ==
    IF i > Len(vs) THEN acc
    ELSE IF /\ Truthy(vs[i].altitude)
            /\ vs[i].altitude[1] < cfg.low_altitude_threshold
            /\ ~ Recent(hist, "low_altitude", vs[i].icao24)
         THEN LowAltitudeLoop(vs, i + 1, cfg, hist,
                  Append(acc, Alert(ClockAt(t, tick, LowPos(Len(vs), i)) + 2,
                                    "low_altitude", "danger", vs[i].icao24)),
                  t, tick)
         ELSE LowAltitudeLoop(vs, i + 1, cfg, hist, acc, t, tick)

\* The rule of low_altitude under the flag of abnormal_speed as well.
LowAltitudeRuleCoupled(vs, cfg, hist, t, tick) ==
    IF cfg.low_altitude_enabled /\ cfg.abnormal_speed_enabled
    THEN LowAltitudeLoop(vs, 1, cfg, hist, <<>>, t, tick)
    ELSE <<>>

LowAltitudeRule(vs, cfg, hist, t, tick) ==
    IF cfg.low_altitude_enabled
    THEN LowAltitudeLoop(vs, 1, cfg, hist, <<>>, t, tick)
    ELSE <<>>

\* Lines 217-234.
RECURSIVE AbnormalSpeedLoop(_, _, _, _, _, _, _)
AbnormalSpeedLoopGeq(vs, i, cfg, hist, acc, t, tick) ==
    IF i > Len(vs) THEN acc
    ELSE IF /\ Truthy(vs[i].velocity)
            /\ vs[i].velocity[1] >= cfg.abnormal_speed_threshold
            /\ ~ Recent(hist, "abnormal_speed", vs[i].icao24)
         THEN AbnormalSpeedLoop(vs, i + 1, cfg, hist,
                  Append(acc, Alert(ClockAt(t, tick, SpeedPos(Len(vs), i)) + 3,
                                    "abnormal_speed", "warning", vs[i].icao24)),
                  t, tick)
         ELSE AbnormalSpeedLoop(vs, i + 1, cfg, hist, acc, t, tick)
AbnormalSpeedLoop(vs, i, cfg, hist, acc, t, tick) ==
    IF i > Len(vs) THEN acc
    ELSE IF /\ Truthy(vs[i].velocity)
            /\ vs[i].velocity[1] > cfg.abnormal_speed_threshold
            /\ ~ Recent(hist, "abnormal_speed", vs[i].icao24)
         THEN AbnormalSpeedLoop(vs, i + 1, cfg, hist,
                  Append(acc, Alert(ClockAt(t, tick, SpeedPos(Len(vs), i)) + 3,
                                    "abnormal_speed", "warning", vs[i].icao24)),
                  t, tick)
         ELSE AbnormalSpeedLoop(vs, i + 1, cfg, hist, acc, t, tick)

AbnormalSpeedRule(vs, cfg, hist, t, tick) ==
    IF cfg.abnormal_speed_enabled
    THEN AbnormalSpeedLoop(vs, 1, cfg, hist, <<>>, t, tick)
    ELSE <<>>

\* Lines 237-241: extend, then keep the last 100.
ExtendAndTrimHead(hist, new) ==
    IF Len(hist \o new) > HistoryCap
    THEN SubSeq(hist \o new, 1, HistoryCap)
    ELSE hist \o new
ExtendAndTrim(hist, new) ==
    IF Len(hist \o new) > HistoryCap
    THEN LastN(hist \o new, HistoryCap)
    ELSE hist \o new

\* The alerts one pass returns (new_alerts), in the order of the four rules.
NewAlerts(vs, cfg, hist, seen, t, tick) ==
    CargoRule(vs, cfg, seen, t, tick).alerts
        \o HighCountRule(vs, cfg, hist, t, tick)
        \o LowAltitudeRule(vs, cfg, hist, t, tick)
        \o AbnormalSpeedRule(vs, cfg, hist, t, tick)

\* check_alerts(vs), entered at clock reading now; the clock advances by one
\* millisecond at construction tick (0: not at all).  What the call does to
\* the state of the alert engine.
CheckAlertsIn(vs, tick) ==
    LET new == NewAlerts(vs, alerts_config, alerts_history,
                         seen_cargo_flights, now, tick)
    IN  /\ seen_cargo_flights' =
               CargoRule(vs, alerts_config, seen_cargo_flights, now, tick).seen
        /\ alerts_history' = ExtendAndTrim(alerts_history, new)
        /\ new_alerts' = new
        /\ vuelos' = vs
        /\ pre_history' = alerts_history
        /\ pre_seen' = seen_cargo_flights
        /\ produced' = produced \o new
        /\ passes_since_clear' = passes_since_clear + 1
        /\ ops' = ops + 1
        /\ lastOp' = "check_alerts"
        /\ now' = IF tick > 0 THEN now + 1 ELSE now
        /\ UNCHANGED <<alerts_config, cleared_seen>>

\* check_alerts(vs) called with a batch, nothing else running.
CheckAlerts(vs, tick) ==
    /\ CheckAlertsIn(vs, tick)
    /\ UNCHANGED tokenVars
    /\ UNCHANGED serviceVars

\* The record of the last pass is kept only until the next handler runs.
ForgetLastPass ==
    /\ vuelos' = <<>>
    /\ new_alerts' = <<>>
    /\ pre_history' = <<>>
    /\ pre_seen' = {}

\* POST /alerts/clear, lines 373-377.
ClearAlertsKeepSeen ==
    /\ alerts_history' = <<>>
    /\ seen_cargo_flights' = seen_cargo_flights
    /\ produced' = <<>>
    /\ cleared_seen' = seen_cargo_flights
    /\ passes_since_clear' = 0
    /\ lastOp' = "clear_alerts"
    /\ ForgetLastPass
    /\ UNCHANGED <<alerts_config, ops, now>>
    /\ UNCHANGED tokenVars
    /\ UNCHANGED serviceVars
ClearAlerts ==
    /\ alerts_history' = <<>>
    /\ seen_cargo_flights' = {}
    /\ produced' = <<>>
    /\ cleared_seen' = seen_cargo_flights
    /\ passes_since_clear' = 0
    /\ lastOp' = "clear_alerts"
    /\ ForgetLastPass
    /\ UNCHANGED <<alerts_config, ops, now>>
    /\ UNCHANGED tokenVars
    /\ UNCHANGED serviceVars

\* POST /alerts/config with a non-empty JSON object, lines 359-366.
UpdateAlertsConfig(new_config) ==
    /\ alerts_config' = ConfigMerge(alerts_config, new_config)
    /\ ops' = ops + 1
    /\ lastOp' = "update_alerts_config"
    /\ ForgetLastPass
    /\ UNCHANGED <<alerts_history, seen_cargo_flights, produced, cleared_seen,
                   passes_since_clear, now>>
    /\ UNCHANGED tokenVars
    /\ UNCHANGED serviceVars

-----------------------------------------------------------------------------
(* The token cache: obtener_token, lines 93-120.                           *)
(* Each caller is a thread of the server; a step is one read or write of   *)
(* token_cache, or the network exchange.  A token is the serial number of  *)
(* the exchange that issued it; token_cache.expires_at is in milliseconds. *)

Callers == 1 .. NumCallers

\* expires_in of a response, in seconds; None when the body has none.
ExpiresIns == {None, Some(1)}

\* json_data.get("expires_in", 1800)
ExpiresInOf(json_data) ==
    IF json_data.expires_in = None THEN DefaultExpiresIn
    ELSE json_data.expires_in[1]

NoResponse == [access_token |-> None, expires_in |-> None, serial |-> 0]

NoCheck == [tok |-> None, exp |-> 0, by |-> 0, at |-> 0, exch |-> 0]

\* A caller enters obtener_token.
Call(c) ==
    /\ pc[c] \in {"idle", "returned", "raised"}
    /\ pc' = [pc EXCEPT ![c] = "L94"]
    /\ resp' = [resp EXCEPT ![c] = NoResponse]
    /\ ret' = [ret EXCEPT ![c] = None]
    /\ chk' = [chk EXCEPT ![c] = NoCheck]
    /\ UNCHANGED <<token_cache, exchanges, expires_by, now>>
    /\ UNCHANGED alertVars
    /\ UNCHANGED serviceVars

\* The same, when no other call is in progress (a single-threaded caller).
CallAlone(c) ==
    /\ \A d \in Callers : pc[d] \in {"idle", "returned", "raised"}
    /\ Call(c)

\* Line 94: access_token and expires_at > time.time().
CacheValidReversed(cache, t) ==
    cache.access_token # None /\ cache.expires_at < t
CacheValid(cache, t) ==
    cache.access_token # None /\ cache.expires_at > t

Check(c) ==
    /\ pc[c] = "L94"
    /\ chk' = [chk EXCEPT ![c] =
                  [tok |-> token_cache.access_token,
                   exp |-> token_cache.expires_at,
                   by |-> expires_by,
                   at |-> now,
                   exch |-> exchanges]]
    /\ pc' = [pc EXCEPT ![c] =
                  IF CacheValid(token_cache, now) THEN "L95" ELSE "L108"]
    /\ UNCHANGED <<token_cache, resp, ret, exchanges, expires_by, now>>
    /\ UNCHANGED alertVars
    /\ UNCHANGED serviceVars

\* Line 95: return token_cache["access_token"], read again.
ReturnCached(c) ==
    /\ pc[c] = "L95"
    /\ ret' = [ret EXCEPT ![c] = token_cache.access_token]
    /\ pc' = [pc EXCEPT ![c] = "returned"]
    /\ UNCHANGED <<token_cache, resp, chk, exchanges, expires_by, now>>
    /\ UNCHANGED alertVars
    /\ UNCHANGED serviceVars

\* Line 108: requests.post is sent; the exchange is in flight.
Post(c) ==
    /\ pc[c] = "L108"
    /\ pc' = [pc EXCEPT ![c] = "inflight"]
    /\ UNCHANGED <<token_cache, resp, ret, chk, exchanges, expires_by, now>>
    /\ UNCHANGED alertVars
    /\ UNCHANGED serviceVars

\* Lines 108-110: the endpoint answers with a token and, maybe, expires_in.
ResponseOk(c, expires_in) ==
    /\ pc[c] = "inflight"
    /\ exchanges < MaxExchanges
    /\ exchanges' = exchanges + 1
    /\ resp' = [resp EXCEPT ![c] = [access_token |-> Some(exchanges + 1),
                                    expires_in |-> expires_in,
                                    serial |-> exchanges + 1]]
    /\ pc' = [pc EXCEPT ![c] = "L111"]
    /\ UNCHANGED <<token_cache, ret, chk, expires_by, now>>
    /\ UNCHANGED alertVars
    /\ UNCHANGED serviceVars

\* Lines 108-110: a success status whose body has no access_token.
ResponseNoToken(c, expires_in) ==
    /\ pc[c] = "inflight"
    /\ exchanges < MaxExchanges
    /\ exchanges' = exchanges + 1
    /\ resp' = [resp EXCEPT ![c] = [access_token |-> None,
                                    expires_in |-> expires_in,
                                    serial |-> exchanges + 1]]
    /\ pc' = [pc EXCEPT ![c] = "L111"]
    /\ UNCHANGED <<token_cache, ret, chk, expires_by, now>>
    /\ UNCHANGED alertVars
    /\ UNCHANGED serviceVars

\* Lines 109, 115-120: a non-success status; raise_for_status raises and the
\* handler re-raises.  A network fault leaves the same way.
ResponseError(c) ==
    /\ pc[c] = "inflight"
    /\ pc' = [pc EXCEPT ![c] = "raised"]
    /\ UNCHANGED <<token_cache, resp, ret, chk, exchanges, expires_by, now>>
    /\ UNCHANGED alertVars
    /\ UNCHANGED serviceVars

\* Line 111.
StoreToken(c) ==
    /\ pc[c] = "L111"
    /\ token_cache' = [token_cache EXCEPT !.access_token = resp[c].access_token]
    /\ pc' = [pc EXCEPT ![c] = "L113"]
    /\ UNCHANGED <<resp, ret, chk, exchanges, expires_by, now>>
    /\ UNCHANGED alertVars
    /\ UNCHANGED serviceVars

\* Lines 112-113.
StoreExpiry(c) ==
    /\ pc[c] = "L113"
    /\ token_cache' = [token_cache EXCEPT
                          !.expires_at = now + ExpiresInOf(resp[c]) * MsPerSecond]
    /\ expires_by' = resp[c].serial
    /\ pc' = [pc EXCEPT ![c] = "L114"]
    /\ UNCHANGED <<resp, ret, chk, exchanges, now>>
    /\ UNCHANGED alertVars
    /\ UNCHANGED serviceVars

\* Line 114: return token_cache["access_token"], read again.
ReturnFresh(c) ==
    /\ pc[c] = "L114"
    /\ ret' = [ret EXCEPT ![c] = token_cache.access_token]
    /\ pc' = [pc EXCEPT ![c] = "returned"]
    /\ UNCHANGED <<token_cache, resp, chk, exchanges, expires_by, now>>
    /\ UNCHANGED alertVars
    /\ UNCHANGED serviceVars

\* The clock advances by one second.
AdvanceSecond ==
    /\ now < MaxSeconds * MsPerSecond
    /\ now' = now + MsPerSecond
    /\ UNCHANGED tokenVars
    /\ UNCHANGED serviceVars
    /\ UNCHANGED alertVars

-----------------------------------------------------------------------------
(* Classification of callsigns: classify_flight, lines 123-147, and the    *)
(* load of the prefix tables, lines 75-86.                                 *)

\* str.upper() on the letters the model uses; every other character is its
\* own upper case.
UpperOf ==
    ("a" :> "A") @@ ("d" :> "D") @@ ("f" :> "F") @@ ("l" :> "L")
        @@ ("x" :> "X")

UpperChar(ch) == IF ch \in DOMAIN UpperOf THEN UpperOf[ch] ELSE ch

Upper(s) == [k \in 1 .. Len(s) |-> UpperChar(s[k])]

Whitespace == {" "}

RECURSIVE LStrip(_)
LStrip(s) ==
    IF s # <<>> /\ Head(s) \in Whitespace THEN LStrip(Tail(s)) ELSE s

RECURSIVE RStrip(_)
RStrip(s) ==
    IF s # <<>> /\ s[Len(s)] \in Whitespace
    THEN RStrip(SubSeq(s, 1, Len(s) - 1))
    ELSE s

\* str.strip()
Strip(s) == RStrip(LStrip(s))

\* str.startswith(p)
StartsWith(s, p) == Len(p) <= Len(s) /\ SubSeq(s, 1, Len(p)) = p

\* for p in prefixes: if s.startswith(p): return ...   from the k-th prefix on
RECURSIVE AnyPrefix(_, _, _)
AnyPrefix(s, prefixes, k) ==
    IF k > Len(prefixes) THEN FALSE
    ELSE IF StartsWith(s, prefixes[k]) THEN TRUE
    ELSE AnyPrefix(s, prefixes, k + 1)

\* Line 142.
fallback_cargo ==
    << <<"F", "D", "X">>, <<"U", "P", "S">>, <<"D", "H", "X">>,
       <<"D", "H", "L">>, <<"C", "V", "G">>, <<"C", "L", "X">>,
       <<"A", "M", "X">>, <<"N", "C", "A">>, <<"G", "E", "C">>,
       <<"G", "T", "I">> >>

\* OPERATOR_MAP when data/operator_mapping.json is absent, line 75.
DefaultOperatorMap == [cargo_prefixes |-> <<>>, commercial_prefixes |-> <<>>]

\* OPERATOR_MAP after the load of a mapping file, lines 80-83.
LoadOperatorMap(raw) ==
    [cargo_prefixes |->
         [k \in 1 .. Len(raw.cargo_prefixes) |-> Upper(raw.cargo_prefixes[k])],
     commercial_prefixes |->
         [k \in 1 .. Len(raw.commercial_prefixes) |->
              Upper(raw.commercial_prefixes[k])]]

classify_flight_commercial_first(cs, map) ==
    IF cs = <<>> THEN "desconocido"
    ELSE LET s == Upper(Strip(cs))
         IN  IF AnyPrefix(s, map.commercial_prefixes, 1) THEN "comercial"
             ELSE IF AnyPrefix(s, map.cargo_prefixes, 1) THEN "carga"
             ELSE IF AnyPrefix(s, fallback_cargo, 1) THEN "carga"
             ELSE "comercial"

\* classify_flight without the hard-coded prefixes of line 142.
classify_flight_no_fallback(cs, map) ==
    IF cs = <<>> THEN "desconocido"
    ELSE LET s == Upper(Strip(cs))
         IN  IF AnyPrefix(s, map.cargo_prefixes, 1) THEN "carga"
             ELSE "comercial"

\* classify_flight(cs) under the tables map.
classify_flight(cs, map) ==
    IF cs = <<>> THEN "desconocido"
    ELSE LET s == Upper(Strip(cs))
         IN  IF AnyPrefix(s, map.cargo_prefixes, 1) THEN "carga"
             ELSE IF AnyPrefix(s, map.commercial_prefixes, 1) THEN "comercial"
             ELSE IF AnyPrefix(s, fallback_cargo, 1) THEN "carga"
             ELSE "comercial"

\* One call of classify_flight on the callsign under test.
Classify ==
    /\ tipo = ""
    /\ tipo' = classify_flight(callsign, OPERATOR_MAP)
    /\ UNCHANGED <<OPERATOR_MAP, callsign, now>>
    /\ UNCHANGED <<alertVars, tokenVars, cycleVars, collectorVars, readVars>>

-----------------------------------------------------------------------------
(* The poll cycle of GET /vuelos, lines 274-346, and the store.            *)
(* The store is the collection "flights": a set of documents.  A document  *)
(* keeps icao24, callsign, type, latitude, longitude, altitude, velocity   *)
(* and last_seen; origin_country, heading and fetched_at are copied and    *)
(* never read.  The clock does not advance during a cycle unless           *)
(* check_alerts advances it.                                               *)

Requests == 1 .. NumRequests

\* A raw state vector of the feed: n is its length, the other fields are
\* estado[0], estado[1], estado[5], estado[6], estado[7] and estado[9].
StateVector(n, icao24, cs, longitude, latitude, altitude, velocity) ==
    [n |-> n, icao24 |-> icao24, callsign |-> cs, longitude |-> longitude,
     latitude |-> latitude, altitude |-> altitude, velocity |-> velocity]

\* Exceptions.
NoError == [kind |-> "none", status |-> 0]
HTTPError(status) == [kind |-> "HTTPError", status |-> status]
OtherError(kind) == [kind |-> kind, status |-> 0]

\* What the token endpoint answers to an exchange that would issue the token
\* named serial: a token, a body without access_token, a non-success status,
\* or nothing (the connection fails).
TokenAnswers(serial) ==
    { [error |-> NoError, access_token |-> Some(serial), expires_in |-> None],
      [error |-> NoError, access_token |-> None, expires_in |-> None],
      [error |-> HTTPError(401), access_token |-> None, expires_in |-> None],
      [error |-> HTTPError(429), access_token |-> None, expires_in |-> None],
      [error |-> OtherError("ConnectionError"), access_token |-> None,
       expires_in |-> None] }

\* obtener_token() run with no other thread inside it, lines 93-120: the
\* cache after the call, the value returned and the exception raised.
ObtenerToken(cache, t, answer) ==
    IF CacheValid(cache, t)
    THEN [cache |-> cache, value |-> cache.access_token, error |-> NoError,
          exchanged |-> FALSE]
    ELSE IF answer.error # NoError
    THEN [cache |-> cache, value |-> None, error |-> answer.error,
          exchanged |-> FALSE]
    ELSE [cache |-> [access_token |-> answer.access_token,
                     expires_at |-> t + ExpiresInOf(answer) * MsPerSecond],
          value |-> answer.access_token, error |-> NoError,
          exchanged |-> TRUE]

\* The JSON body and status of a response of /vuelos that is not the batch,
\* lines 339-346; accents are dropped.
VuelosExcept(error) ==
    IF error.kind = "HTTPError"
    THEN IF error.status = 429
         THEN [status |-> 429,
               error |-> "Limite de peticiones alcanzado. Intenta mas tarde."]
         ELSE [status |-> 500, error |-> "Error al consultar OpenSky"]
    ELSE [status |-> 500, error |-> "Error interno"]

NoResult == [status |-> 0, error |-> ""]

OkResult == [status |-> 200, error |-> ""]

\* "N/A", lines 307 and 90 of the two files.
NotAvailable == <<"N", "/", "A">>

\* The record built from a state vector once its callsign is stripped and
\* classified, lines 302-316.
Vuelo(estado, cs, type) ==
    [icao24 |-> estado.icao24,
     callsign |-> IF cs # <<>> THEN cs ELSE NotAvailable,
     latitude |-> estado.latitude,
     longitude |-> estado.longitude,
     altitude |-> estado.altitude,
     velocity |-> estado.velocity,
     type |-> type]

\* Lines 297-316 for one state vector: IndexError when an index read is past
\* its end, "skip" for the continue of line 300, else the record.
NormalizeNoSkip(estado, map) ==
    IF estado.n <= 6 THEN [kind |-> "IndexError"]
    ELSE IF estado.n <= 10 THEN [kind |-> "IndexError"]
    ELSE LET cs == IF estado.callsign # <<>>
                   THEN Strip(estado.callsign) ELSE <<>>
         IN  [kind |-> "record",
              vuelo |-> Vuelo(estado, cs, classify_flight(cs, map))]

Normalize(estado, map) ==
    IF estado.n <= 6 THEN [kind |-> "IndexError"]
    ELSE IF estado.latitude = None \/ estado.longitude = None
    THEN [kind |-> "skip"]
    ELSE IF estado.n <= 10 THEN [kind |-> "IndexError"]
    ELSE LET cs == IF estado.callsign # <<>>
                   THEN Strip(estado.callsign) ELSE <<>>
         IN  [kind |-> "record",
              vuelo |-> Vuelo(estado, cs, classify_flight(cs, map))]

\* The document update_one leaves for a key: the fields of $set over the
\* document found (or over a new one), last_seen set by $currentDate.
SetFields(found, vuelo, current_date, t) ==
    [icao24 |-> vuelo.icao24, callsign |-> vuelo.callsign,
     latitude |-> vuelo.latitude, longitude |-> vuelo.longitude,
     altitude |-> vuelo.altitude, velocity |-> vuelo.velocity,
     type |-> vuelo.type,
     last_seen |-> IF current_date THEN Some(t) ELSE found.last_seen]

\* The payload fields of a document.
PayloadOf(doc) ==
    [icao24 |-> doc.icao24, callsign |-> doc.callsign,
     latitude |-> doc.latitude, longitude |-> doc.longitude,
     altitude |-> doc.altitude, velocity |-> doc.velocity,
     type |-> doc.type]

\* insert_one in place of the upsert.
insert_one(coll, icao24, vuelo, current_date, t) ==
    coll \cup {SetFields([last_seen |-> None], vuelo, current_date, t)}

\* update_one({"icao24": icao24}, {"$set": vuelo, ...}, upsert=True)
update_one(coll, icao24, vuelo, current_date, t) ==
    LET found == { d \in coll : d.icao24 = icao24 }
    IN  IF found # {}
        THEN LET d == CHOOSE d \in found : TRUE
             IN  (coll \ {d}) \cup {SetFields(d, vuelo, current_date, t)}
        ELSE coll \cup
                 {SetFields([last_seen |-> None], vuelo, current_date, t)}

\* Lines 320-324 without the except clause.
PersistUncaught(coll, up, vuelo, write) ==
    IF ~up THEN [store |-> coll, written |-> FALSE, error |-> NoError]
    ELSE IF write = "fail"
    THEN [store |-> coll, written |-> FALSE,
          error |-> OtherError("PyMongoError")]
    ELSE [store |-> update_one(coll, vuelo.icao24, vuelo, FALSE, 0),
          written |-> TRUE, error |-> NoError]

\* Lines 320-324: the upsert of one record when the store is there; a failed
\* write is logged and raises nothing.
Persist(coll, up, vuelo, write) ==
    IF ~up THEN [store |-> coll, written |-> FALSE, error |-> NoError]
    ELSE IF write = "fail"
    THEN [store |-> coll, written |-> FALSE, error |-> NoError]
    ELSE [store |-> update_one(coll, vuelo.icao24, vuelo, FALSE, 0),
          written |-> TRUE, error |-> NoError]

\* The upsert history of the store after a record was written or not.
Upserted(k, vuelo, written) ==
    /\ last_upsert' = IF written
                      THEN [last_upsert EXCEPT ![k] = Some(vuelo)]
                      ELSE last_upsert
    /\ prev_upsert' = IF written
                      THEN [prev_upsert EXCEPT ![k] = last_upsert[k]]
                      ELSE prev_upsert

\* Locals of a thread before its first request.  written and failed are the
\* icao24 whose write the store took or refused.  Of its check_alerts pass:
\* new is new_alerts, hc the high_count_enabled it read, cfgs every value
\* alerts_config had during the pass, hist0 and seen0 the history and the
\* seen set it was entered with, quiet whether no other thread has changed
\* the history since.
NoRequest ==
    [pc |-> "idle", states |-> <<>>, i |-> 1, vuelos |-> <<>>,
     response |-> NoResult, written |-> {}, failed |-> {},
     new |-> <<>>, hc |-> FALSE, cfgs |-> {}, hist0 |-> <<>>, seen0 |-> {},
     quiet |-> TRUE, auth |-> NoError, feed |-> NoError]

\* The thread has a request whose cycle has neither returned nor failed.
InCycle(r) == req[r].pc \notin {"idle", "done"}

\* Where the loop of line 296 stands once index i is reached.
LoopPc(states, i) == IF i > Len(states) THEN "L326" ELSE "L296"

\* A thread takes a GET /vuelos.
VuelosBegin(r) ==
    /\ ~InCycle(r)
    /\ req' = [req EXCEPT ![r] = [NoRequest EXCEPT !.pc = "L285"]]
    /\ UNCHANGED <<store, db_up, last_upsert, prev_upsert, now>>
    /\ UNCHANGED <<alertVars, tokenVars, collectorVars, classifyVars, readVars>>

\* Line 285: token = obtener_token().
VuelosToken(r, answer) ==
    /\ req[r].pc = "L285"
    /\ LET res == ObtenerToken(token_cache, now, answer)
       IN  /\ res.exchanged => exchanges < MaxExchanges
           /\ token_cache' = res.cache
           /\ exchanges' = IF res.exchanged THEN exchanges + 1 ELSE exchanges
           /\ expires_by' = IF res.exchanged THEN exchanges + 1
                            ELSE expires_by
           /\ req' = [req EXCEPT ![r] =
                        IF res.error = NoError
                        THEN [@ EXCEPT !.pc = "L290"]
                        ELSE [@ EXCEPT !.pc = "done",
                                       !.auth = res.error,
                                       !.response = VuelosExcept(res.error)]]
    /\ UNCHANGED <<pc, resp, ret, chk, now>>
    /\ UNCHANGED <<store, db_up, last_upsert, prev_upsert, cycles>>
    /\ UNCHANGED <<alertVars, collectorVars, classifyVars, readVars>>

\* Lines 290-292: the request to the state feed and its answer.
VuelosGet(r, answer) ==
    /\ req[r].pc = "L290"
    /\ req' = [req EXCEPT ![r] =
                 IF answer.error = NoError
                 THEN [@ EXCEPT !.pc = LoopPc(answer.states, 1),
                                !.states = answer.states]
                 ELSE [@ EXCEPT !.pc = "done",
                                !.feed = answer.error,
                                !.response = VuelosExcept(answer.error)]]
    /\ UNCHANGED <<store, db_up, last_upsert, prev_upsert, cycles, now>>
    /\ UNCHANGED <<alertVars, tokenVars, collectorVars, classifyVars, readVars>>

\* One turn of the loop of lines 296-324; write is what the store does with
\* the upsert, if it is asked.
VuelosRecord(r, write) ==
    /\ req[r].pc = "L296"
    /\ LET rq == req[r]
           estado == rq.states[rq.i]
           norm == Normalize(estado, OPERATOR_MAP)
       IN  IF norm.kind = "IndexError"
           THEN /\ req' = [req EXCEPT ![r] =
                             [@ EXCEPT !.pc = "done",
                                       !.response = VuelosExcept(
                                           OtherError("IndexError"))]]
                /\ UNCHANGED <<store, last_upsert, prev_upsert>>
           ELSE IF norm.kind = "skip"
           THEN /\ req' = [req EXCEPT ![r] =
                             [@ EXCEPT !.pc = LoopPc(rq.states, rq.i + 1),
                                       !.i = rq.i + 1]]
                /\ UNCHANGED <<store, last_upsert, prev_upsert>>
           ELSE LET p == Persist(store, db_up, norm.vuelo, write)
                IN  /\ store' = p.store
                    /\ Upserted(estado.icao24, norm.vuelo, p.written)
                    /\ req' = [req EXCEPT ![r] =
                          IF p.error # NoError
                          THEN [@ EXCEPT !.pc = "done",
                                         !.response = VuelosExcept(p.error)]
                          ELSE [@ EXCEPT
                                  !.pc = LoopPc(rq.states, rq.i + 1),
                                  !.i = rq.i + 1,
                                  !.vuelos = Append(rq.vuelos, norm.vuelo),
                                  !.written =
                                      IF p.written
                                      THEN rq.written \cup {estado.icao24}
                                      ELSE rq.written,
                                  !.failed =
                                      IF db_up /\ ~p.written
                                      THEN rq.failed \cup {estado.icao24}
                                      ELSE rq.failed]]
    /\ UNCHANGED <<db_up, cycles, now>>
    /\ UNCHANGED <<alertVars, tokenVars, collectorVars, classifyVars, readVars>>

\* Lines 326-337: check_alerts over the batch, then the batch is returned.
VuelosAlerts(r, tick) ==
    /\ req[r].pc = "L326"
    /\ CheckAlertsIn(req[r].vuelos, tick)
    /\ req' = [req EXCEPT ![r] =
                 [@ EXCEPT !.pc = "done",
                           !.response = OkResult,
                           !.new = NewAlerts(req[r].vuelos, alerts_config,
                                             alerts_history,
                                             seen_cargo_flights, now, tick),
                           !.cfgs = {alerts_config},
                           !.hist0 = alerts_history,
                           !.seen0 = seen_cargo_flights]]
    /\ UNCHANGED <<store, db_up, last_upsert, prev_upsert, cycles>>
    /\ UNCHANGED <<tokenVars, collectorVars, classifyVars, readVars>>

\* check_alerts run by a thread among others, lines 149-243: a step is the
\* evaluation of one rule, the rule of high_count being two steps, the read
\* of its flag and the read of its threshold (line 178).  The clock stands
\* still.

\* The thread is inside check_alerts, past the rule of cargo_entry.
InPass(r) ==
    req[r].pc \in {"L178", "L178b", "L196", "L217", "L237", "L240", "L241"}

\* Lines 151-174: the counts and the rule of cargo_entry.
AlertsCargo(r) ==
    /\ req[r].pc = "L326"
    /\ LET c == CargoRule(req[r].vuelos, alerts_config, seen_cargo_flights,
                          now, 0)
       IN  /\ seen_cargo_flights' = c.seen
           /\ req' = [req EXCEPT ![r] =
                        [@ EXCEPT !.pc = "L178",
                                  !.new = c.alerts,
                                  !.cfgs = {alerts_config},
                                  !.hist0 = alerts_history,
                                  !.seen0 = seen_cargo_flights,
                                  !.quiet = TRUE]]
    /\ UNCHANGED <<alerts_history, alerts_config, vuelos, new_alerts,
                   pre_history, pre_seen, lastOp, produced, cleared_seen,
                   passes_since_clear, ops, now>>
    /\ UNCHANGED <<store, db_up, last_upsert, prev_upsert, cycles>>
    /\ UNCHANGED <<tokenVars, collectorVars, classifyVars, readVars>>

\* What the steps of a pass that change no global leave alone.
PassFrame ==
    /\ UNCHANGED <<alertVars, tokenVars, collectorVars, classifyVars, readVars, now>>
    /\ UNCHANGED <<store, db_up, last_upsert, prev_upsert, cycles>>

\* Line 178, left operand: alerts_config["high_count_enabled"].
AlertsHighEnabled(r) ==
    /\ req[r].pc = "L178"
    /\ req' = [req EXCEPT ![r] =
                 [@ EXCEPT !.pc = "L178b",
                           !.hc = alerts_config.high_count_enabled]]
    /\ PassFrame

\* Lines 178-193, from the right operand of line 178 on.
AlertsHighThreshold(r) ==
    /\ req[r].pc = "L178b"
    /\ req' = [req EXCEPT ![r] =
                 [@ EXCEPT
                    !.pc = "L196",
                    !.new = @ \o HighCountRule(
                                req[r].vuelos,
                                [alerts_config EXCEPT
                                    !.high_count_enabled = req[r].hc],
                                alerts_history, now, 0)]]
    /\ PassFrame

\* Lines 196-214.
AlertsLowAltitude(r) ==
    /\ req[r].pc = "L196"
    /\ req' = [req EXCEPT ![r] =
                 [@ EXCEPT
                    !.pc = "L217",
                    !.new = @ \o LowAltitudeRule(req[r].vuelos, alerts_config,
                                                 alerts_history, now, 0)]]
    /\ PassFrame

\* Lines 217-234.
AlertsAbnormalSpeed(r) ==
    /\ req[r].pc = "L217"
    /\ req' = [req EXCEPT ![r] =
                 [@ EXCEPT
                    !.pc = "L237",
                    !.new = @ \o AbnormalSpeedRule(req[r].vuelos,
                                                   alerts_config,
                                                   alerts_history, now, 0)]]
    /\ PassFrame

\* The thread has extended the history and has not yet left the trim of
\* lines 240-241.
Trimming(r) == req[r].pc \in {"L240", "L241"}

\* The locals of the threads once thread r has changed the history (changed:
\* whether it did) and stands at at.
AfterHistoryStep(r, at, response, changed) ==
    [q \in Requests |->
        IF q = r
        THEN [req[q] EXCEPT !.pc = at, !.response = response]
        ELSE IF InPass(q) /\ changed
        THEN [req[q] EXCEPT !.quiet = FALSE]
        ELSE req[q]]

\* What a step of lines 237-243 leaves alone besides the history.
HistoryFrame ==
    /\ UNCHANGED <<alerts_config, seen_cargo_flights, cleared_seen, now>>
    /\ UNCHANGED <<store, db_up, last_upsert, prev_upsert, cycles>>
    /\ UNCHANGED <<tokenVars, collectorVars, classifyVars, readVars>>

\* Line 237: alerts_history.extend(new_alerts), one call of list.extend.
AlertsExtend(r) ==
    /\ req[r].pc = "L237"
    /\ alerts_history' = alerts_history \o req[r].new
    /\ new_alerts' = req[r].new
    /\ vuelos' = req[r].vuelos
    /\ pre_history' = alerts_history
    /\ pre_seen' = req[r].seen0
    /\ produced' = produced \o req[r].new
    /\ passes_since_clear' = passes_since_clear + 1
    /\ ops' = ops + 1
    /\ lastOp' = "check_alerts"
    /\ req' = AfterHistoryStep(r, "L240", req[r].response, req[r].new # <<>>)
    /\ HistoryFrame

\* Lines 240-241, two steps: the test len(alerts_history) > 100 and, when it
\* holds, del alerts_history[:-100].  After the one or the other, lines 243
\* and 326-337 return the batch.
AlertsTrim(r) ==
    /\ Trimming(r)
    /\ IF req[r].pc = "L240"
       THEN /\ req' = IF Len(alerts_history) > HistoryCap
                      THEN AfterHistoryStep(r, "L241", req[r].response, FALSE)
                      ELSE AfterHistoryStep(r, "done", OkResult, FALSE)
            /\ UNCHANGED alerts_history
       ELSE /\ alerts_history' = LastN(alerts_history, HistoryCap)
            /\ req' = AfterHistoryStep(r, "done", OkResult,
                                       Len(alerts_history) > HistoryCap)
    /\ UNCHANGED <<vuelos, new_alerts, pre_history, pre_seen,
                   produced, passes_since_clear, ops, lastOp>>
    /\ HistoryFrame

\* POST /alerts/config served by another thread, lines 359-366.
ConfigThread(new_config) ==
    /\ alerts_config' = ConfigMerge(alerts_config, new_config)
    /\ ops' = ops + 1
    /\ lastOp' = "update_alerts_config"
    /\ req' = [q \in Requests |->
                 IF InPass(q)
                 THEN [req[q] EXCEPT
                          !.cfgs = @ \cup {ConfigMerge(alerts_config,
                                                       new_config)}]
                 ELSE req[q]]
    /\ UNCHANGED <<alerts_history, seen_cargo_flights, vuelos, new_alerts,
                   pre_history, pre_seen, produced, cleared_seen,
                   passes_since_clear, now>>
    /\ UNCHANGED <<store, db_up, last_upsert, prev_upsert, cycles>>
    /\ UNCHANGED <<tokenVars, collectorVars, classifyVars, readVars>>

-----------------------------------------------------------------------------
(* The read endpoints, lines 348-356, 379-388 and 812-847, and              *)
(* POST /alerts/clear served by a thread among others, lines 372-377.       *)
(* A read is one step: it answers from the history as it stands.            *)

\* alerts_history[-20:] of line 351.
RecentAlerts == 20

\* next((a for a in hist if a.get('id') == alert_id), None), as a list.
Lookup(hist, alert_id) ==
    LET found == { k \in DOMAIN hist : hist[k].id = alert_id }
    IN  IF found = {} THEN <<>>
        ELSE << hist[CHOOSE k \in found : \A j \in found : k <= j] >>

\* The alerts of the body an endpoint answers over the history hist.
AlertsOf(op, hist, alert_id) ==
    CASE op = "get_alerts" -> LastN(hist, RecentAlerts)
      [] op = "export_alerts" -> hist
      [] op = "get_alert_audio" -> Lookup(hist, alert_id)
      [] OTHER -> <<>>

\* The histories a reader could meet if lines 237-241 were one step: that of
\* each thread inside them before its extend and after its trim, and the
\* history as it stands when no thread is inside them.
AtomicViews ==
    IF \E r \in Requests : Trimming(r)
    THEN UNION { {req[r].hist0, ExtendAndTrim(req[r].hist0, req[r].new)} :
                 r \in { q \in Requests : Trimming(q) } }
    ELSE {alerts_history}

\* No read has been served.
NoRead == [op |-> "none", status |-> 0, alerts |-> <<>>, config |-> {},
           views |-> {}]

\* What a read leaves alone: everything but read.
ReadFrame ==
    /\ UNCHANGED <<alertVars, tokenVars, cycleVars, collectorVars,
                   classifyVars, now>>

\* The answer of a read endpoint; views are the alerts it would answer over
\* each of the atomic views.
Answer(op, status, alerts, alert_id) ==
    [op |-> op, status |-> status, alerts |-> alerts, config |-> {},
     views |-> { AlertsOf(op, h, alert_id) : h \in AtomicViews }]

\* GET /alerts, lines 348-351.
GetAlerts ==
    /\ read' = Answer("get_alerts", 200,
                      AlertsOf("get_alerts", alerts_history, 0), 0)
    /\ ReadFrame

\* GET /alerts/config, lines 353-356.
GetAlertsConfig ==
    /\ read' = [NoRead EXCEPT !.op = "get_alerts_config", !.status = 200,
                              !.config = {alerts_config}]
    /\ ReadFrame

\* GET /alerts/export, lines 379-388.
ExportAlerts ==
    /\ read' = Answer("export_alerts", 200,
                      AlertsOf("export_alerts", alerts_history, 0), 0)
    /\ ReadFrame

\* GET /alerts/<alert_id>/audio, lines 812-847; voice is what the voice
\* service does: "unavailable", "ok" or "fail" to generate the audio.
GetAlertAudio(alert_id, voice) ==
    /\ LET alert == AlertsOf("get_alert_audio", alerts_history, alert_id)
       IN  read' = IF voice = "unavailable"
                   THEN [NoRead EXCEPT !.op = "get_alert_audio",
                                       !.status = 503]
                   ELSE Answer("get_alert_audio",
                               IF alert = <<>> THEN 404
                               ELSE IF voice = "ok" THEN 200 ELSE 500,
                               alert, alert_id)
    /\ ReadFrame

\* POST /alerts/clear taken by thread r.
ClearBegin(r) ==
    /\ ~InCycle(r)
    /\ req' = [req EXCEPT ![r] = [NoRequest EXCEPT !.pc = "L375"]]
    /\ UNCHANGED <<store, db_up, last_upsert, prev_upsert, now>>
    /\ UNCHANGED <<alertVars, tokenVars, collectorVars, classifyVars, readVars>>

\* Line 375: alerts_history.clear().
ClearHistory(r) ==
    /\ req[r].pc = "L375"
    /\ alerts_history' = <<>>
    /\ produced' = <<>>
    /\ passes_since_clear' = 0
    /\ lastOp' = "clear_alerts"
    /\ req' = AfterHistoryStep(r, "L376", req[r].response,
                               alerts_history # <<>>)
    /\ ForgetLastPass
    /\ UNCHANGED <<alerts_config, seen_cargo_flights, cleared_seen, ops, now>>
    /\ UNCHANGED <<store, db_up, last_upsert, prev_upsert, cycles>>
    /\ UNCHANGED <<tokenVars, collectorVars, classifyVars, readVars>>

\* Lines 376-377: seen_cargo_flights.clear(), and the answer.
ClearSeen(r) ==
    /\ req[r].pc = "L376"
    /\ seen_cargo_flights' = {}
    /\ cleared_seen' = seen_cargo_flights
    /\ req' = [req EXCEPT ![r] = NoRequest]
    /\ UNCHANGED <<alerts_history, alerts_config, vuelos, new_alerts,
                   pre_history, pre_seen, lastOp, produced,
                   passes_since_clear, ops, now>>
    /\ UNCHANGED <<store, db_up, last_upsert, prev_upsert, cycles>>
    /\ UNCHANGED <<tokenVars, collectorVars, classifyVars, readVars>>

-----------------------------------------------------------------------------
(* The collector process: collector.py.  It has its own token cache and    *)
(* shares only the store with the server.  A step is one test of a loop    *)
(* condition, one call of fetch_states, one turn of the loop of            *)
(* process_and_store, or one time.sleep(1).                                *)

\* Locals of the collector between cycles; prev is how the cycle before the
\* current one ended, written and failed are the icao24 whose write the
\* store took or refused in the current cycle.
NoCycle ==
    [states |-> <<>>, i |-> 1, outcome |-> "none", prev |-> "none",
     written |-> {}, failed |-> {}]

NoSignal == [at |-> "", sleeps |-> 0]

\* Where main() goes when a cycle raises: the except clauses of lines
\* 116-119 log, and the loop goes on to its sleep.
AfterCycleErrorExit == "stopped"

AfterCycleError == "L122"

\* Lines 80-100 for one state vector.
CollectorNormalize(estado, map) ==
    IF estado.n <= 0 \/ estado.n <= 1 \/ estado.n <= 6
    THEN [kind |-> "IndexError"]
    ELSE IF estado.latitude = None \/ estado.longitude = None
    THEN [kind |-> "skip"]
    ELSE IF estado.n <= 10 THEN [kind |-> "IndexError"]
    ELSE LET cs == IF estado.callsign # <<>>
                   THEN Strip(estado.callsign) ELSE <<>>
         IN  [kind |-> "record",
              vuelo |-> Vuelo(estado, cs, classify_flight(cs, map))]

\* Lines 101-106: the upsert of one document when the store is there; a
\* failed write is logged and raises nothing.
CollectorPersist(coll, up, doc, t, write) ==
    IF ~up THEN [store |-> coll, written |-> FALSE, error |-> NoError]
    ELSE IF write = "fail"
    THEN [store |-> coll, written |-> FALSE, error |-> NoError]
    ELSE [store |-> update_one(coll, doc.icao24, doc, TRUE, t),
          written |-> TRUE, error |-> NoError]

\* The end of a cycle, by return or by exception: slept = 0 (line 121) and
\* the loop stands at the test of line 122.
CycleEnds(outcome) ==
    /\ col' = [col EXCEPT !.outcome = outcome]
    /\ cpc' = IF outcome = "failed" THEN AfterCycleError ELSE "L122"
    /\ slept' = 0

\* Line 112: while RUNNING.
CollectorWhile ==
    /\ cpc = "L112"
    /\ cpc' = IF RUNNING THEN "L114" ELSE "stopped"
    /\ col' = IF RUNNING
              THEN [NoCycle EXCEPT !.outcome = "running",
                                   !.prev = col.outcome]
              ELSE col
    /\ UNCHANGED <<RUNNING, slept, collector_cache, sig, now>>
    /\ UNCHANGED <<store, db_up, req, last_upsert, prev_upsert>>
    /\ UNCHANGED <<alertVars, tokenVars, classifyVars, readVars>>

\* Line 114: fetch_states(), lines 63-75.
CollectorFetch(tokenAnswer, feedAnswer) ==
    /\ cpc = "L114"
    /\ LET res == ObtenerToken(collector_cache, now, tokenAnswer)
       IN  /\ res.exchanged => exchanges < MaxExchanges
           /\ collector_cache' = res.cache
           /\ exchanges' = IF res.exchanged THEN exchanges + 1 ELSE exchanges
           /\ IF res.error # NoError \/ feedAnswer.error # NoError
              THEN CycleEnds("failed")
              ELSE IF feedAnswer.states = <<>>
              THEN CycleEnds("ok")
              ELSE /\ col' = [col EXCEPT !.states = feedAnswer.states]
                   /\ cpc' = "L115"
                   /\ UNCHANGED slept
    /\ UNCHANGED <<RUNNING, sig, now>>
    /\ UNCHANGED <<store, db_up, req, last_upsert, prev_upsert, cycles>>
    /\ UNCHANGED <<token_cache, pc, resp, ret, chk, expires_by>>
    /\ UNCHANGED <<alertVars, classifyVars, readVars>>

\* Line 115: one turn of the loop of process_and_store, lines 81-106.
CollectorRecord(write) ==
    /\ cpc = "L115"
    /\ LET estado == col.states[col.i]
           norm == CollectorNormalize(estado, OPERATOR_MAP)
           last == col.i = Len(col.states)
       IN  IF norm.kind = "IndexError"
           THEN /\ CycleEnds("failed")
                /\ UNCHANGED <<store, last_upsert, prev_upsert>>
           ELSE IF norm.kind = "skip"
           THEN /\ IF last THEN CycleEnds("ok")
                   ELSE /\ col' = [col EXCEPT !.i = col.i + 1]
                        /\ UNCHANGED <<cpc, slept>>
                /\ UNCHANGED <<store, last_upsert, prev_upsert>>
           ELSE LET p == CollectorPersist(store, db_up, norm.vuelo, now,
                                          write)
                IN  /\ store' = p.store
                    /\ Upserted(estado.icao24, norm.vuelo, p.written)
                    /\ IF p.error # NoError THEN CycleEnds("failed")
                       ELSE /\ col' = [col EXCEPT
                                  !.i = col.i + 1,
                                  !.outcome = IF last THEN "ok" ELSE @,
                                  !.written =
                                      IF p.written
                                      THEN @ \cup {estado.icao24} ELSE @,
                                  !.failed =
                                      IF db_up /\ ~p.written
                                      THEN @ \cup {estado.icao24} ELSE @]
                            /\ cpc' = IF last THEN "L122" ELSE cpc
                            /\ slept' = IF last THEN 0 ELSE slept
    /\ UNCHANGED <<RUNNING, collector_cache, sig, db_up, req, cycles, now>>
    /\ UNCHANGED <<alertVars, tokenVars, classifyVars, readVars>>

\* Line 122 with the test on RUNNING left out.
CollectorSleepTestDeaf ==
    /\ cpc = "L122"
    /\ cpc' = IF slept < INTERVAL THEN "L123" ELSE "L112"
    /\ UNCHANGED <<RUNNING, slept, col, collector_cache, sig, now>>
    /\ UNCHANGED <<cycleVars, alertVars, tokenVars, classifyVars, readVars>>

\* Line 122: while RUNNING and slept < INTERVAL.
CollectorSleepTest ==
    /\ cpc = "L122"
    /\ cpc' = IF RUNNING /\ slept < INTERVAL THEN "L123" ELSE "L112"
    /\ UNCHANGED <<RUNNING, slept, col, collector_cache, sig, now>>
    /\ UNCHANGED <<cycleVars, alertVars, tokenVars, classifyVars, readVars>>

\* Lines 123-124: time.sleep(1); slept += 1.
CollectorSleep ==
    /\ cpc = "L123"
    /\ slept' = slept + 1
    /\ cpc' = "L122"
    /\ sig' = IF RUNNING THEN sig
              ELSE [sig EXCEPT !.sleeps = IF @ < 2 THEN @ + 1 ELSE 2]
    /\ UNCHANGED <<RUNNING, col, collector_cache, now>>
    /\ UNCHANGED <<cycleVars, alertVars, tokenVars, classifyVars, readVars>>

\* SIGINT or SIGTERM: the handler of lines 53-56 runs between two steps.
Shutdown ==
    /\ cpc # "stopped"
    /\ RUNNING
    /\ RUNNING' = FALSE
    /\ sig' = [at |-> cpc, sleeps |-> 0]
    /\ UNCHANGED <<cpc, slept, col, collector_cache, now>>
    /\ UNCHANGED <<cycleVars, alertVars, tokenVars, classifyVars, readVars>>

-----------------------------------------------------------------------------
(* Inputs *)

\* Flight records as /vuelos builds them (lines 305-316), kept to the fields
\* check_alerts reads.
Flight(icao24, type, altitude, velocity) ==
    [icao24 |-> icao24, type |-> type, altitude |-> altitude,
     velocity |-> velocity]

FlightSamples ==
    { Flight(1, "carga", Some(2000), Some(450)),
      Flight(2, "comercial", None, Some(600)),
      Flight(2, "carga", Some(0), None) }

SmallBatches ==
    {<<>>} \cup { <<a>> : a \in FlightSamples }
           \cup { <<a, b>> : a \in FlightSamples, b \in FlightSamples }

\* A batch of n distinct cargo aircraft, all low and fast.
LargeBatch(n) ==
    [i \in 1 .. n |-> Flight(i, "carga", Some(2000), Some(600))]

\* A batch of n distinct commercial aircraft at cruise altitude and speed.
QuietBatch(n) ==
    [i \in 1 .. n |-> Flight(i, "comercial", Some(35000), Some(450))]

BulkBatches ==
    { LargeBatch(BulkLen), QuietBatch(HighCountThreshold + 1),
      QuietBatch(HighCountThreshold) }

\* Batches that set off every rule: one over the high_count threshold, all
\* cargo, low and fast, and two small ones.
GatingBatches ==
    { LargeBatch(HighCountThreshold + 1),
      << Flight(1, "carga", Some(2000), Some(450)),
         Flight(2, "comercial", None, Some(600)) >>,
      << Flight(2, "comercial", Some(1000), Some(600)) >> }

\* Bodies of POST /alerts/config that switch one rule off or on.
GatingConfigInputs ==
    { [cargo_entry_enabled |-> FALSE],
      [high_count_enabled |-> FALSE],
      [low_altitude_enabled |-> FALSE],
      [abnormal_speed_enabled |-> FALSE],
      [low_altitude_enabled |-> TRUE] }

\* Batches with cargo and other aircraft, and bodies of POST /alerts/config
\* that switch the rule of cargo_entry.
SurfaceBatches ==
    { << Flight(1, "carga", Some(2000), Some(450)) >>,
      << Flight(2, "carga", Some(0), None),
         Flight(3, "comercial", Some(9000), Some(600)) >> }

SurfaceConfigInputs ==
    { [cargo_entry_enabled |-> FALSE], [cargo_entry_enabled |-> TRUE],
      [low_altitude_threshold |-> 2000] }

\* Ids asked of the audio endpoint, and what the voice service does.
AudioIds == {0, 3}

Voices == {"unavailable", "ok", "fail"}

BulkConfigInputs == { [high_count_enabled |-> FALSE] }

\* Bodies of POST /alerts/config.
ConfigInputs ==
    { [cargo_entry_enabled |-> FALSE],
      [high_count_enabled |-> FALSE],
      [high_count_threshold |-> 1],
      [low_altitude_enabled |-> FALSE],
      [low_altitude_threshold |-> 2000],
      [abnormal_speed_enabled |-> FALSE],
      [abnormal_speed_threshold |-> 600],
      [high_count_threshold |-> 0, abnormal_speed_threshold |-> 0] }

\* State vectors of the feed: a cargo flight at two altitudes, a vector
\* without latitude, one without longitude, one cut short after five fields,
\* and a flight without callsign.
CargoHigh ==
    StateVector(17, 1, <<"F", "D", "X", "1", " ">>, Some(99), Some(19),
                Some(9000), Some(450))

CargoLow ==
    StateVector(17, 1, <<"F", "D", "X", "1", " ">>, Some(99), Some(19),
                Some(2000), Some(450))

NoLatitude ==
    StateVector(17, 2, <<"A", "A", "L", "2">>, Some(99), None,
                Some(2000), Some(600))

NoLongitude ==
    StateVector(17, 2, <<"F", "D", "X", "2">>, None, Some(19),
                Some(2000), Some(600))

CutShort == StateVector(5, 3, <<"F", "D", "X", "3">>, None, None, None, None)

NoCallsign == StateVector(17, 3, <<>>, Some(99), Some(19), None, Some(600))

RawVectors ==
    {CargoHigh, CargoLow, NoLatitude, NoLongitude, CutShort, NoCallsign}

\* Two aircraft in flight: a cargo flight low and slow, an airliner at cruise
\* altitude.
Fdx12Low ==
    StateVector(17, 4, <<"F", "D", "X", "1", "2", " ">>, Some(99), Some(19),
                Some(2000), Some(450))

Aal20Cruise ==
    StateVector(17, 5, <<"A", "A", "L", "2", "0", " ">>, Some(98), Some(20),
                Some(35000), Some(460))

TwoAircraft == <<Fdx12Low, Aal20Cruise>>

Icaos == { v.icao24 : v \in RawVectors \cup {Fdx12Low, Aal20Cruise} }

\* The "states" of an answer of the feed.
StatesInputs ==
    { <<>>,
      <<CargoLow, NoCallsign>>,
      <<NoLatitude, CargoHigh, NoLongitude>>,
      <<CutShort, CargoLow>>,
      <<CargoLow, CutShort, NoCallsign>>,
      <<CargoHigh, CargoLow>> }

\* Answers of the state feed: a body, 429, another status, no answer.
FeedAnswers ==
    { [error |-> NoError, states |-> st] : st \in StatesInputs }
        \cup { [error |-> HTTPError(429), states |-> <<>>],
               [error |-> HTTPError(503), states |-> <<>>],
               [error |-> OtherError("Timeout"), states |-> <<>>] }

\* Answers of the feed to the collector of SpecCollector.
CollectorFeedAnswers ==
    { [error |-> NoError, states |-> <<>>],
      [error |-> NoError, states |-> <<CargoHigh, NoCallsign>>],
      [error |-> NoError, states |-> <<CutShort>>],
      [error |-> HTTPError(503), states |-> <<>>],
      [error |-> OtherError("Timeout"), states |-> <<>>] }

\* Answers of the feed over the two aircraft in flight.
TwoAircraftFeedAnswers ==
    { [error |-> NoError, states |-> TwoAircraft],
      [error |-> NoError, states |-> <<Aal20Cruise>>],
      [error |-> HTTPError(503), states |-> <<>>] }

\* Bodies of POST /alerts/config sent between the cycles over them.
TwoAircraftConfigInputs ==
    { [abnormal_speed_enabled |-> FALSE],
      [abnormal_speed_enabled |-> FALSE, low_altitude_enabled |-> FALSE] }

\* A feed of n cargo aircraft, all low and fast.
CargoFleet(n) ==
    [i \in 1 .. n |->
        StateVector(17, i, <<"F", "D", "X">>, Some(99), Some(19), Some(2000),
                    Some(600))]

\* Answers of the feed while the readers are served: a fleet whose alerts of
\* one pass outnumber the history, and one aircraft.
ReaderFeedAnswers ==
    { [error |-> NoError, states |-> CargoFleet(FleetLen)],
      [error |-> NoError, states |-> <<CargoLow>>] }

\* Answers of the feed while the history is cleared.
ClearFeedAnswers == { [error |-> NoError, states |-> <<CargoLow>>] }

\* What the store does with a write it receives.
Writes == {"ok", "fail"}

\* Answers of the feed to the threads of SpecThreads.
ThreadFeedAnswers ==
    { [error |-> NoError, states |-> <<CargoLow>>],
      [error |-> NoError, states |-> <<NoCallsign>>] }

\* Bodies of POST /alerts/config sent while the threads run.
ThreadConfigInputs ==
    { [high_count_enabled |-> FALSE, high_count_threshold |-> 0],
      [low_altitude_enabled |-> FALSE] }

\* Characters of the callsigns given to classify_flight on its own.
CallsignAlphabet == {"F", "f", "D", "X", "A", " "}

CallsignInputs ==
    UNION { [1 .. n -> CallsignAlphabet] : n \in 0 .. MaxCallsignLen }

\* Contents of data/operator_mapping.json.
RawMaps ==
    { [cargo_prefixes |-> <<>>, commercial_prefixes |-> <<>>],
      [cargo_prefixes |-> << <<"f", "d">> >>,
       commercial_prefixes |-> << <<"F">> >>],
      [cargo_prefixes |-> << <<"A">> >>,
       commercial_prefixes |-> << <<"F", "D", "X">>, <<"a", "f">> >>],
      [cargo_prefixes |-> << <<"X">>, <<"d", "a">> >>,
       commercial_prefixes |-> << <<"D">> >>] }

-----------------------------------------------------------------------------
(* Specifications *)

\* The state after import, given whether the store could be reached, the
\* prefix tables loaded and the callsign classify_flight will be tried on.
InitWith(up, map, cs) ==
    /\ alerts_history = <<>>
    /\ alerts_config = DefaultConfig
    /\ seen_cargo_flights = {}
    /\ token_cache = [access_token |-> None, expires_at |-> 0]
    /\ now = 0
    /\ vuelos = <<>>
    /\ new_alerts = <<>>
    /\ pre_history = <<>>
    /\ pre_seen = {}
    /\ lastOp = "init"
    /\ produced = <<>>
    /\ cleared_seen = {}
    /\ passes_since_clear = 0
    /\ ops = 0
    /\ pc = [c \in Callers |-> "idle"]
    /\ resp = [c \in Callers |-> NoResponse]
    /\ ret = [c \in Callers |-> None]
    /\ chk = [c \in Callers |-> NoCheck]
    /\ exchanges = 0
    /\ expires_by = 0
    /\ OPERATOR_MAP = map
    /\ store = {}
    /\ db_up = up
    /\ req = [r \in Requests |-> NoRequest]
    /\ last_upsert = [k \in Icaos |-> None]
    /\ prev_upsert = [k \in Icaos |-> None]
    /\ cycles = 0
    /\ RUNNING = TRUE
    /\ cpc = "L112"
    /\ slept = 0
    /\ col = NoCycle
    /\ collector_cache = [access_token |-> None, expires_at |-> 0]
    /\ sig = NoSignal
    /\ callsign = cs
    /\ tipo = ""
    /\ read = NoRead

\* The server with its store reached and no mapping file.
Init == InitWith(TRUE, DefaultOperatorMap, <<>>)

\* One /vuelos cycle reaching check_alerts.
Pass(vs, tick) ==
    /\ ops < MaxOps
    /\ CheckAlerts(vs, tick)

BulkPass(vs, tick) ==
    /\ ops < MaxBulkOps
    /\ CheckAlerts(vs, tick)

\* One POST /alerts/config.
Update(new_config) ==
    /\ ops < MaxOps
    /\ UpdateAlertsConfig(new_config)

BulkUpdate(new_config) ==
    /\ ops < MaxBulkOps
    /\ UpdateAlertsConfig(new_config)

\* The alert engine under small batches, config updates and clears.
Next ==
    \/ \E vs \in SmallBatches, tick \in 0 .. 2 : Pass(vs, tick)
    \/ ClearAlerts
    \/ \E new_config \in ConfigInputs : Update(new_config)

Spec == Init /\ [][Next]_vars

\* One request to a read endpoint, the first of the behaviour.
ReadOnce ==
    /\ read = NoRead
    /\ \/ GetAlerts
       \/ GetAlertsConfig
       \/ ExportAlerts
       \/ \E alert_id \in AudioIds, voice \in Voices :
              GetAlertAudio(alert_id, voice)

\* The endpoints of the alert engine served one at a time, with one request
\* to a read endpoint.
NextSurface ==
    \/ \E vs \in SurfaceBatches : Pass(vs, 0)
    \/ ClearAlerts
    \/ \E new_config \in SurfaceConfigInputs : Update(new_config)
    \/ ReadOnce

SpecSurface == Init /\ [][NextSurface]_vars

\* The alert engine under batches that set off every rule, the rules being
\* switched off and on.
NextGating ==
    \/ \E vs \in GatingBatches, tick \in 0 .. 2 : Pass(vs, tick)
    \/ ClearAlerts
    \/ \E new_config \in GatingConfigInputs : Update(new_config)

SpecGating == Init /\ [][NextGating]_vars

\* The alert engine under large batches, with the default configuration.
NextBulk ==
    \/ \E vs \in BulkBatches, tick \in 0 .. 1 : BulkPass(vs, tick)
    \/ ClearAlerts
    \/ \E new_config \in BulkConfigInputs : BulkUpdate(new_config)

SpecBulk == Init /\ [][NextBulk]_vars

TokenStep(c) ==
    \/ Check(c)
    \/ ReturnCached(c)
    \/ Post(c)
    \/ \E e \in ExpiresIns : ResponseOk(c, e)
    \/ \E e \in ExpiresIns : ResponseNoToken(c, e)
    \/ ResponseError(c)
    \/ StoreToken(c)
    \/ StoreExpiry(c)
    \/ ReturnFresh(c)

\* obtener_token called from the threads of the server.
NextToken ==
    \/ \E c \in Callers : Call(c)
    \/ \E c \in Callers : TokenStep(c)
    \/ AdvanceSecond

SpecToken == Init /\ [][NextToken]_vars

\* obtener_token called by one thread at a time.
NextTokenSeq ==
    \/ \E c \in Callers : CallAlone(c)
    \/ \E c \in Callers : TokenStep(c)
    \/ AdvanceSecond

SpecTokenSeq == Init /\ [][NextTokenSeq]_vars

\* The server and the collector, with the store reached or not.
InitCycle == \E up \in BOOLEAN : InitWith(up, DefaultOperatorMap, <<>>)

\* A GET /vuelos arrives when no other is being served and the collector is
\* between two iterations of its loop.
Vuelos(r) ==
    /\ cycles < MaxCycles
    /\ \A q \in Requests : ~InCycle(q)
    /\ cpc \in {"L112", "stopped"}
    /\ VuelosBegin(r)
    /\ cycles' = cycles + 1

\* The collector's loop test when no request is being served, a cycle
\* starting only within the bound.
CollectorCycle ==
    /\ RUNNING => cycles < MaxCycles
    /\ \A q \in Requests : ~InCycle(q)
    /\ CollectorWhile
    /\ cycles' = IF RUNNING THEN cycles + 1 ELSE cycles

\* The collector's loop test.
CollectorLoop ==
    /\ CollectorWhile
    /\ UNCHANGED cycles

\* The steps of a GET /vuelos once taken, the feed answering from feeds,
\* check_alerts being one step and the clock standing still.
VuelosSteps(r, feeds) ==
    \/ \E answer \in TokenAnswers(exchanges + 1) : VuelosToken(r, answer)
    \/ \E answer \in feeds : VuelosGet(r, answer)
    \/ \E write \in Writes : VuelosRecord(r, write)
    \/ VuelosAlerts(r, 0)

VuelosStep(r) == VuelosSteps(r, FeedAnswers)

\* The steps of the collector within a cycle and its sleep, the feed
\* answering from feeds.
CollectorSteps(feeds) ==
    \/ \E tokenAnswer \in TokenAnswers(exchanges + 1), feedAnswer \in feeds :
            CollectorFetch(tokenAnswer, feedAnswer)
    \/ \E write \in Writes : CollectorRecord(write)
    \/ CollectorSleepTest
    \/ CollectorSleep

CollectorStep == CollectorSteps(FeedAnswers)

\* Poll cycles of the server and of the collector, one cycle at a time, the
\* requests all served by the first thread and no signal sent.
NextCycle ==
    \/ Vuelos(1)
    \/ VuelosStep(1)
    \/ CollectorCycle
    \/ CollectorStep

SpecCycle == InitCycle /\ [][NextCycle]_vars

\* A POST /alerts/config between two GET /vuelos.
UpdateBetween(new_config) ==
    /\ \A q \in Requests : ~InCycle(q)
    /\ Update(new_config)

\* GET /vuelos over the two aircraft in flight, the configuration being
\* updated between the cycles.
NextTwoAircraft ==
    \/ \E new_config \in TwoAircraftConfigInputs : UpdateBetween(new_config)
    \/ Vuelos(1)
    \/ VuelosSteps(1, TwoAircraftFeedAnswers)

SpecTwoAircraft == InitCycle /\ [][NextTwoAircraft]_vars

\* The collector process alone, for as long as it runs.  Its single thread
\* is always scheduled and its network calls and sleeps return.
NextCollector ==
    \/ CollectorLoop
    \/ CollectorSteps(CollectorFeedAnswers)
    \/ Shutdown

SpecCollector ==
    /\ InitCycle
    /\ [][NextCollector]_vars
    /\ WF_vars(CollectorLoop \/ CollectorSteps(CollectorFeedAnswers))

\* A GET /vuelos arrives at a thread of the server.
VuelosThread(r) ==
    /\ cycles < MaxThreadCycles
    /\ VuelosBegin(r)
    /\ cycles' = cycles + 1

\* A POST /alerts/config arrives.
UpdateThread(new_config) ==
    /\ ops < MaxThreadOps
    /\ ConfigThread(new_config)

\* The steps of a GET /vuelos served among other requests; the token
\* endpoint, the feed and the store answer without error.
ThreadSteps(r, feeds) ==
    \/ VuelosToken(r, [error |-> NoError, access_token |-> Some(exchanges + 1),
                       expires_in |-> None])
    \/ \E answer \in feeds : VuelosGet(r, answer)
    \/ VuelosRecord(r, "ok")
    \/ AlertsCargo(r)
    \/ AlertsHighEnabled(r)
    \/ AlertsHighThreshold(r)
    \/ AlertsLowAltitude(r)
    \/ AlertsAbnormalSpeed(r)
    \/ AlertsExtend(r)
    \/ AlertsTrim(r)

ThreadStep(r) == ThreadSteps(r, ThreadFeedAnswers)

\* The threaded server of app.run (line 919): requests are served as they
\* arrive, each by its own thread.
NextThreads ==
    \/ \E r \in Requests : VuelosThread(r)
    \/ \E r \in Requests : ThreadStep(r)
    \/ \E new_config \in ThreadConfigInputs : UpdateThread(new_config)

SpecThreads == Init /\ [][NextThreads]_vars

\* A POST /alerts/clear arrives at a thread of the server.
ClearThread(r) ==
    /\ cycles < MaxThreadCycles
    /\ ClearBegin(r)
    /\ cycles' = cycles + 1

\* The threaded server under GET /vuelos and POST /alerts/clear, the feed
\* answering one cargo aircraft.
NextClear ==
    \/ \E r \in Requests : VuelosThread(r)
    \/ \E r \in Requests : ThreadSteps(r, ClearFeedAnswers)
    \/ \E r \in Requests : ClearThread(r)
    \/ \E r \in Requests : ClearHistory(r)
    \/ \E r \in Requests : ClearSeen(r)

SpecClear == Init /\ [][NextClear]_vars

\* One thread of the server serving GET /vuelos while a read endpoint is
\* asked; there is no store (db is None, line 67).
NextReaders ==
    \/ VuelosThread(1)
    \/ ThreadSteps(1, ReaderFeedAnswers)
    \/ ReadOnce

SpecReaders ==
    InitWith(FALSE, DefaultOperatorMap, <<>>) /\ [][NextReaders]_vars

\* classify_flight on one callsign under loaded prefix tables.
InitClassify ==
    \E raw \in RawMaps, cs \in CallsignInputs :
        InitWith(TRUE, LoadOperatorMap(raw), cs)

SpecClassify == InitClassify /\ [][Classify]_vars

-----------------------------------------------------------------------------
(* Vocabulary of the properties *)

Min(a, b) == IF a <= b THEN a ELSE b

\* Number of alerts of a type for an aircraft in a list of alerts.
CountAlerts(alerts, type, icao24) ==
    Cardinality({ k \in DOMAIN alerts :
                    alerts[k].type = type /\ alerts[k].icao24 = icao24 })

CountType(alerts, type) ==
    Cardinality({ k \in DOMAIN alerts : alerts[k].type = type })

\* An alert of this type for this aircraft is among the last n of hist.
AmongLast(hist, n, type, icao24) ==
    \E k \in DOMAIN hist :
        /\ k > Len(hist) - n
        /\ hist[k].type = type
        /\ hist[k].icao24 = icao24

TypeAmongLast(hist, n, type) ==
    \E k \in DOMAIN hist : k > Len(hist) - n /\ hist[k].type = type

IcaosOf(vs) == { vs[k].icao24 : k \in DOMAIN vs }

AfterPass == lastOp = "check_alerts"

-----------------------------------------------------------------------------
\* C1: with cargo_entry enabled and no clear in between, at most one
\* cargo_entry alert is ever produced per icao24; after a pass, every cargo
\* aircraft of its batch has exactly one cargo_entry alert among the alerts
\* produced since the last clear, also when that alert has left the history.
C1_CargoEntryOnce ==
    /\ \A k \in DOMAIN produced :
          produced[k].type = "cargo_entry"
              => CountAlerts(produced, "cargo_entry", produced[k].icao24) = 1
    /\ (AfterPass /\ alerts_config.cargo_entry_enabled)
          => \A k \in DOMAIN vuelos :
                 vuelos[k].type = "carga"
                     => CountAlerts(produced, "cargo_entry", vuelos[k].icao24) = 1

\* A pass met a cargo aircraft that was alerted earlier and whose alert was
\* evicted from the full history, and did not alert again.
C1_Witness ==
    /\ AfterPass
    /\ Len(pre_history) = 100
    /\ \E k \in DOMAIN vuelos :
          /\ vuelos[k].type = "carga"
          /\ vuelos[k].icao24 \in pre_seen
          /\ CountAlerts(pre_history, "cargo_entry", vuelos[k].icao24) = 0
          /\ CountAlerts(new_alerts, "cargo_entry", vuelos[k].icao24) = 0
          /\ CountAlerts(produced, "cargo_entry", vuelos[k].icao24) = 1

\* C2: clear_alerts leaves the history and the seen-cargo set both empty, and
\* in the next pass (the cargo_entry rule enabled) every cargo aircraft of the
\* batch that had been alerted before the clear gets a new cargo_entry alert.
C2_ClearResetsBoth ==
    /\ lastOp = "clear_alerts"
          => alerts_history = <<>> /\ seen_cargo_flights = {}
    /\ (AfterPass /\ passes_since_clear = 1 /\ alerts_config.cargo_entry_enabled)
          => \A k \in DOMAIN vuelos :
                 (vuelos[k].type = "carga" /\ vuelos[k].icao24 \in cleared_seen)
                     => CountAlerts(new_alerts, "cargo_entry", vuelos[k].icao24) = 1

\* An aircraft alerted before the clear is alerted again by the first pass
\* after it.
C2_Witness ==
    /\ AfterPass
    /\ passes_since_clear = 1
    /\ \E k \in DOMAIN vuelos :
          /\ vuelos[k].type = "carga"
          /\ vuelos[k].icao24 \in cleared_seen
          /\ CountAlerts(new_alerts, "cargo_entry", vuelos[k].icao24) = 1

\* C3: a pass emits exactly one high_count alert if high_count is enabled,
\* the batch is longer than the threshold and no high_count alert is among
\* the last 5 entries of the history as the pass found it; otherwise none.
C3_HighCount ==
    AfterPass =>
        CountType(new_alerts, "high_count") =
            IF /\ alerts_config.high_count_enabled
               /\ Len(vuelos) > alerts_config.high_count_threshold
               /\ ~ TypeAmongLast(pre_history, 5, "high_count")
            THEN 1 ELSE 0

\* Threshold 10: a batch of 11 right after a pass that emitted high_count,
\* that alert still among the last 5 entries, emits none.
C3_Witness ==
    /\ AfterPass
    /\ alerts_config.high_count_enabled
    /\ alerts_config.high_count_threshold = 10
    /\ Len(vuelos) = 11
    /\ TypeAmongLast(pre_history, 5, "high_count")
    /\ CountType(new_alerts, "high_count") = 0

\* C4: with low_altitude enabled, every record whose altitude is not null and
\* below the threshold, altitude 0 included, produces one low_altitude alert
\* of severity danger unless such an alert for its icao24 is among the last
\* 10 history entries; the other records produce none.
C4_LowAltitudeEveryRecord ==
    (AfterPass /\ alerts_config.low_altitude_enabled) =>
        /\ \A icao24 \in IcaosOf(vuelos) :
              CountAlerts(new_alerts, "low_altitude", icao24) =
                  Cardinality({ k \in DOMAIN vuelos :
                      /\ vuelos[k].icao24 = icao24
                      /\ vuelos[k].altitude # None
                      /\ vuelos[k].altitude[1] < alerts_config.low_altitude_threshold
                      /\ ~ AmongLast(pre_history, 10, "low_altitude", icao24) })
        /\ \A k \in DOMAIN new_alerts :
              new_alerts[k].type = "low_altitude"
                  => new_alerts[k].severity = "danger"

C6_HistoryBound ==
    /\ Len(alerts_history) = Min(100, Len(produced))
    /\ \A k \in DOMAIN alerts_history :
          alerts_history[k] =
              produced[Len(produced) - Len(alerts_history) + k]

\* 150 alerts or more were produced and the history holds 100.
C6_Witness ==
    /\ AfterPass
    /\ Len(produced) >= 150
    /\ Len(alerts_history) = 100
    /\ alerts_history[1] = produced[Len(produced) - 99]

\* C7: the alerts of one pass have pairwise distinct ids.
C7_DistinctIds ==
    AfterPass =>
        \A j, k \in DOMAIN new_alerts :
            j # k => new_alerts[j].id # new_alerts[k].id

\* C8: a call made while a non-empty token is cached and the clock is before
\* its expires_at goes to line 95 without an exchange, returns the value that
\* was cached, and the cache is the same all the way.
C8_CachedTokenReused ==
    [][\A c \in Callers :
          /\ ( /\ pc[c] = "L94" /\ pc'[c] # "L94"
               /\ token_cache.access_token # None
               /\ now < token_cache.expires_at )
                => ( /\ pc'[c] = "L95"
                     /\ token_cache' = token_cache
                     /\ exchanges' = exchanges )
          /\ pc[c] = "L95"
                => ( /\ token_cache' = token_cache
                     /\ exchanges' = exchanges
                     /\ pc'[c] \in {"L95", "returned"}
                     /\ pc'[c] = "returned" => ret'[c] = chk[c].tok )
      ]_vars

\* A call returned the cached token it had found valid, with no exchange.
C8_Witness ==
    \E c \in Callers :
        /\ pc[c] = "returned"
        /\ resp[c] = NoResponse
        /\ chk[c].tok # None
        /\ chk[c].at < chk[c].exp
        /\ ret[c] = chk[c].tok
        /\ exchanges = chk[c].exch
        /\ chk[c].at > 0

\* Callers past the failed check of line 94, in or after their exchange.
Refreshing(c) == pc[c] \in {"inflight", "L111", "L113", "L114"}

\* C9: at most one credential exchange is in flight at any time, and callers
\* that found the same expired cache do not each perform an exchange.
C9_SingleExchange ==
    /\ Cardinality({ c \in Callers : pc[c] = "inflight" }) <= 1
    /\ \A c, d \in Callers :
          (c # d /\ Refreshing(c) /\ Refreshing(d))
              => (chk[c].tok # chk[d].tok \/ chk[c].exp # chk[d].exp)

\* C10: a token handed out from the cache passed the check against an
\* expires_at later than the time of the check, and that expires_at was not
\* written for a newer token than the one handed out.
C10_TokenMatchesExpiry ==
    \A c \in Callers :
        (pc[c] = "returned" /\ resp[c] = NoResponse /\ ret[c] # None)
            => /\ chk[c].exp > chk[c].at
               /\ ret[c][1] >= chk[c].by

\* C11: a call of obtener_token that returns hands out a token, never null: an
\* exchange that answers without access_token ends the call in an error.
C11_NeverReturnsNull ==
    \A c \in Callers :
        /\ pc[c] = "returned" => ret[c] # None
        /\ (pc[c] \in {"L111", "L113", "L114", "returned"}
                /\ resp[c] # NoResponse)
               => resp[c].access_token # None

\* A state vector with both coordinates.
Positioned(estado) == estado.latitude # None /\ estado.longitude # None

\* The icao24 that the feed only ever reports without a position.
NeverPositioned ==
    { v.icao24 : v \in { u \in RawVectors : ~Positioned(u) } }
        \ { v.icao24 : v \in { u \in RawVectors : Positioned(u) } }

\* The request of thread r has returned its batch.
Served(r) == req[r].pc = "done" /\ req[r].response = OkResult

\* C12: a state vector whose latitude or longitude is null yields no record:
\* no record of any batch, no document of the store and no alert comes from
\* it, in a /vuelos cycle and in a collector cycle alike.
C12_NullPositionSkipped ==
    /\ \A r \in Requests : \A k \in DOMAIN req[r].vuelos :
           /\ req[r].vuelos[k].latitude # None
           /\ req[r].vuelos[k].longitude # None
           /\ req[r].vuelos[k].icao24 \notin NeverPositioned
    /\ \A k \in DOMAIN vuelos :
           vuelos[k].latitude # None /\ vuelos[k].longitude # None
    /\ \A d \in store :
           /\ d.latitude # None /\ d.longitude # None
           /\ d.icao24 \notin NeverPositioned
    /\ \A k \in Icaos : k \in NeverPositioned => last_upsert[k] = None
    /\ \A k \in DOMAIN alerts_history :
           alerts_history[k].icao24 \notin NeverPositioned
    /\ \A r \in Requests :
           Served(r) =>
               Len(req[r].vuelos) =
                   Cardinality({ k \in DOMAIN req[r].states :
                                   Positioned(req[r].states[k]) })

\* A request was served whose feed held a vector without position next to a
\* positioned one, and the collector has stored a cycle of the same kind.
C12_Witness ==
    /\ Served(1)
    /\ \E k \in DOMAIN req[1].states : ~Positioned(req[1].states[k])
    /\ req[1].vuelos # <<>>
    /\ alerts_history # <<>>
    /\ col.outcome = "ok"
    /\ \E k \in DOMAIN col.states : ~Positioned(col.states[k])
    /\ \E d \in store : d.last_seen # None

\* The documents of the store under one key.
DocsOf(k) == { d \in store : d.icao24 = k }

\* C13: the store holds at most one document per icao24, and the payload
\* fields of that document are those of the most recent upsert for the key;
\* a key never upserted has no document.
C13_OneRecordPerKey ==
    \A k \in Icaos :
        /\ Cardinality(DocsOf(k)) <= 1
        /\ last_upsert[k] = None => DocsOf(k) = {}
        /\ last_upsert[k] # None =>
               \E d \in DocsOf(k) : PayloadOf(d) = last_upsert[k][1]

\* A key was upserted twice with different payloads and one document, equal
\* to the second, is left.
C13_Witness ==
    \E k \in Icaos :
        /\ prev_upsert[k] # None
        /\ prev_upsert[k] # last_upsert[k]
        /\ Cardinality(DocsOf(k)) = 1
        /\ \A d \in DocsOf(k) : PayloadOf(d) = last_upsert[k][1]

\* A state vector that has every field the code reads.
WellFormed(estado) == estado.n > 10

AllWellFormed(states) == \A k \in DOMAIN states : WellFormed(states[k])

\* The records of the positioned vectors of a feed, in the order of the feed.
ExpectedBatch(states) ==
    LET pos == SelectSeq(states, Positioned)
    IN  [k \in 1 .. Len(pos) |->
            Vuelo(pos[k], Strip(pos[k].callsign),
                  classify_flight(Strip(pos[k].callsign), OPERATOR_MAP))]

\* C14: a write the store refuses, or a store that is not there, never aborts
\* a cycle.  Over a feed of well-formed vectors a /vuelos cycle that got its
\* feed returns the batch, the batch holds every positioned record, the
\* refused ones included, each record was either written or refused,
\* and check_alerts ran over that batch; a collector cycle ends without
\* error with every record written or refused.
C14_WriteFailureContained ==
    /\ \A r \in Requests :
           (req[r].pc = "done" /\ AllWellFormed(req[r].states)
                /\ req[r].states # <<>>)
               => /\ req[r].response = OkResult
                  /\ req[r].vuelos = ExpectedBatch(req[r].states)
                  /\ vuelos = req[r].vuelos
                  /\ lastOp = "check_alerts"
                  /\ req[r].failed \subseteq IcaosOf(req[r].vuelos)
                  /\ IF db_up
                     THEN req[r].written \cup req[r].failed
                              = IcaosOf(req[r].vuelos)
                     ELSE req[r].written = {} /\ req[r].failed = {}
    /\ (cpc \in {"L122", "L123"} /\ AllWellFormed(col.states)
            /\ col.states # <<>>)
           => /\ col.outcome = "ok"
              /\ IF db_up
                 THEN col.written \cup col.failed
                          = IcaosOf(ExpectedBatch(col.states))
                 ELSE col.written = {} /\ col.failed = {}

\* A request was served in which the store refused one record and took
\* another, and a collector cycle of the same kind has ended.
C14_Witness ==
    /\ Served(1)
    /\ req[1].failed # {}
    /\ req[1].written \ req[1].failed # {}
    /\ Len(alerts_history) > 0
    /\ cpc = "L122"
    /\ col.failed # {}
    /\ col.written \ col.failed # {}

\* A well-formed state vector with both coordinates.
Usable(estado) == WellFormed(estado) /\ Positioned(estado)

\* C15: a state vector too short to be read fails only its own record: a
\* /vuelos cycle that got its feed returns the batch of all well-formed
\* positioned vectors, every one of them written or refused by the store, and
\* a collector cycle that got its feed ends without error.
C15_MalformedContained ==
    /\ \A r \in Requests :
           (req[r].pc = "done" /\ req[r].states # <<>>)
               => /\ req[r].response = OkResult
                  /\ req[r].vuelos =
                         ExpectedBatch(SelectSeq(req[r].states, Usable))
                  /\ db_up => req[r].written \cup req[r].failed
                                  = IcaosOf(req[r].vuelos)
    /\ (cpc \in {"L122", "L123"} /\ col.states # <<>>)
           => /\ col.outcome = "ok"
              /\ db_up => col.written \cup col.failed
                              = IcaosOf(ExpectedBatch(
                                    SelectSeq(col.states, Usable)))

\* The thread is inside check_alerts.
Checking(r) == req[r].pc = "L326" \/ InPass(r)

\* C16: at most one poll cycle is between its fetch and the end of its alert
\* pass at any time, and two check_alerts passes never interleave.
C16_OneCycleAtATime ==
    /\ Cardinality({ r \in Requests : InCycle(r) }) <= 1
    /\ Cardinality({ r \in Requests : Checking(r) }) <= 1

\* C19: a check_alerts pass evaluates its rules under one value of
\* alerts_config: the alerts it returns are those of the whole pass under the
\* configuration as it stood before, or after, some update, never under a
\* flag of the one and a threshold of the other.
C19_PassSeesOneConfig ==
    \A r \in Requests :
        (Served(r) /\ req[r].quiet)
            => \E cfg \in req[r].cfgs :
                   req[r].new = NewAlerts(req[r].vuelos, cfg, req[r].hist0,
                                          req[r].seen0, now, 0)

\* C17: a cycle that fails never ends the collector's loop: the loop stops
\* only after a shutdown signal, and after a failed cycle, unless a signal
\* comes, the sleep ends and another cycle starts.
C17_FailedCycleGoesOn ==
    /\ [](cpc = "stopped" => ~RUNNING)
    /\ (cpc = "L122" /\ col.outcome = "failed")
           ~> (cpc = "L114" \/ ~RUNNING)

\* A cycle has started after a failed one and a full sleep, with no signal.
C17_Witness ==
    /\ cpc = "L114"
    /\ col.prev = "failed"
    /\ slept = INTERVAL
    /\ RUNNING

\* C18: once RUNNING is false no cycle starts and the loop stops; after the
\* signal at most one time.sleep(1) completes, and none if the signal came
\* during a cycle.
C18_ShutdownStopsLoop ==
    /\ [][~RUNNING => (cpc' = "L114" => cpc = "L114")]_vars
    /\ ~RUNNING ~> cpc = "stopped"
    /\ [](sig.sleeps <= 1)
    /\ [](sig.at \in {"L114", "L115"} => sig.sleeps = 0)

\* The loop has stopped after a signal that came during a sleep, and after
\* one that came during a cycle.
C18_Witness ==
    /\ cpc = "stopped"
    /\ sig.at = "L123"
    /\ sig.sleeps = 1
    /\ slept < INTERVAL

\* Some prefix of the table is a prefix of s.
Matches(s, prefixes) == \E k \in DOMAIN prefixes : StartsWith(s, prefixes[k])

\* The class the order of precedence gives a non-empty callsign.
FirstMatch(cs, map) ==
    LET s == Upper(Strip(cs))
    IN  CASE Matches(s, map.cargo_prefixes) -> "carga"
          [] ~Matches(s, map.cargo_prefixes)
                 /\ Matches(s, map.commercial_prefixes) -> "comercial"
          [] ~Matches(s, map.cargo_prefixes)
                 /\ ~Matches(s, map.commercial_prefixes)
                 /\ Matches(s, fallback_cargo) -> "carga"
          [] OTHER -> "comercial"

\* C20: classify_flight returns "desconocido" exactly for the empty or null
\* callsign, otherwise the class of the first step that matches among
\* configured cargo prefix, configured commercial prefix, built-in cargo
\* prefix, else "comercial"; and every callsign that differs from the one
\* classified only in letter case gets the same class.
C20_ClassifyByPrecedence ==
    tipo # "" =>
        /\ tipo = "desconocido" <=> callsign = <<>>
        /\ callsign # <<>> => tipo = FirstMatch(callsign, OPERATOR_MAP)
        /\ \A other \in CallsignInputs :
               Upper(other) = Upper(callsign)
                   => classify_flight(other, OPERATOR_MAP) = tipo

\* A lower-case callsign with blanks around it was classified as cargo by a
\* configured prefix although a configured commercial prefix matches too.
C20_Witness ==
    /\ tipo = "carga"
    /\ callsign # Upper(callsign)
    /\ callsign # Strip(callsign)
    /\ Matches(Upper(Strip(callsign)), OPERATOR_MAP.cargo_prefixes)
    /\ Matches(Upper(Strip(callsign)), OPERATOR_MAP.commercial_prefixes)

-----------------------------------------------------------------------------

\* The cycle of thread r over the two aircraft in flight, entered with an
\* empty history and an empty seen set under the default configuration with
\* abnormal_speed disabled, has returned, every write taken by the store.
TwoAircraftServed(r) ==
    /\ Served(r)
    /\ req[r].states = TwoAircraft
    /\ req[r].hist0 = <<>>
    /\ req[r].seen0 = {}
    /\ req[r].cfgs = {[DefaultConfig EXCEPT !.abnormal_speed_enabled = FALSE]}
    /\ db_up
    /\ req[r].failed = {}

\* C21: from an empty history and an empty seen set, with the default
\* thresholds and abnormal_speed disabled, one cycle over FDX12 (altitude
\* 2000, velocity 450) and AAL20 (altitude 35000, velocity 460) stores two
\* records and its alert pass returns exactly one cargo_entry and one
\* low_altitude alert, both for FDX12, and no abnormal_speed or high_count
\* alert.
C21_TwoAircraftCycle ==
    \A r \in Requests :
        TwoAircraftServed(r) =>
            /\ req[r].written = {Fdx12Low.icao24, Aal20Cruise.icao24}
            /\ Cardinality(store) = 2
            /\ { PayloadOf(d) : d \in store } =
                   { req[r].vuelos[k] : k \in DOMAIN req[r].vuelos }
            /\ Len(req[r].vuelos) = 2
            /\ Len(req[r].new) = 2
            /\ CountAlerts(req[r].new, "cargo_entry", Fdx12Low.icao24) = 1
            /\ CountAlerts(req[r].new, "low_altitude", Fdx12Low.icao24) = 1
            /\ CountType(req[r].new, "abnormal_speed") = 0
            /\ CountType(req[r].new, "high_count") = 0
            /\ alerts_history = req[r].new

C21_Witness == TwoAircraftServed(1)

\* C22: every cycle of the collector that fetched the states and stored its
\* batch has run check_alerts over the records it normalized before it goes
\* to sleep: no successful cycle of the timer ends without an alert pass.
C22_PollerRunsAlertPass ==
    (cpc = "L122" /\ col.outcome = "ok" /\ col.states # <<>>) =>
        /\ lastOp = "check_alerts"
        /\ vuelos = ExpectedBatch(col.states)

-----------------------------------------------------------------------------
\* The four rules: the flag of each and the type of its alerts.
Rules ==
    { [flag |-> "cargo_entry_enabled", type |-> "cargo_entry"],
      [flag |-> "high_count_enabled", type |-> "high_count"],
      [flag |-> "low_altitude_enabled", type |-> "low_altitude"],
      [flag |-> "abnormal_speed_enabled", type |-> "abnormal_speed"] }

\* The alerts of a list that are not of this type, in order.
NotOfType(alerts, type) == SelectSeq(alerts, LAMBDA a : a.type # type)

\* The clock readings and ticks the last pass may have run with: the clock
\* has advanced by one millisecond during the pass or not at all.
RanAt ==
    { c \in {<<now, 0>>, <<now - 1, 1>>, <<now - 1, 2>>} :
          new_alerts = NewAlerts(vuelos, alerts_config, pre_history, pre_seen,
                                 c[1], c[2]) }

\* C23: the four rules are gated independently.  A pass emits no alert of a
\* type whose flag is false, and the alerts of every other type it emits are
\* those the same pass, from the same history and seen set at the same clock
\* readings, emits with that flag the other way.
C23_RulesGatedIndependently ==
    AfterPass =>
        /\ \A rule \in Rules :
               ~alerts_config[rule.flag] => CountType(new_alerts, rule.type) = 0
        /\ RanAt # {}
        /\ \A c \in RanAt : \A rule \in Rules :
               NotOfType(new_alerts, rule.type) =
                   NotOfType(NewAlerts(vuelos,
                                       [alerts_config EXCEPT
                                            ![rule.flag] = ~alerts_config[rule.flag]],
                                       pre_history, pre_seen, c[1], c[2]),
                             rule.type)

\* A pass with one rule disabled has emitted alerts of two other types.
C23_Witness ==
    /\ AfterPass
    /\ ~alerts_config.low_altitude_enabled
    /\ CountType(new_alerts, "cargo_entry") > 0
    /\ CountType(new_alerts, "high_count") > 0
    /\ CountType(new_alerts, "abnormal_speed") > 0
    /\ \E k \in DOMAIN vuelos :
           /\ Truthy(vuelos[k].altitude)
           /\ vuelos[k].altitude[1] < alerts_config.low_altitude_threshold

-----------------------------------------------------------------------------
\* The cycle of thread r is over, by a return or by an exception.
Over(r) == req[r].pc = "done"

\* The outcome of /vuelos for an upstream that failed otherwise than by a
\* rate limit.
UpstreamErrorResult == VuelosExcept(HTTPError(500))

\* C24: a /vuelos cycle answers 429 exactly when the state feed answered 429,
\* and answers with the generic upstream error for every other HTTP failure
\* of the state feed or of the token exchange.
C24_RateLimitedFromFeedOnly ==
    \A r \in Requests :
        Over(r) =>
            /\ req[r].response.status = 429 <=> req[r].feed = HTTPError(429)
            /\ ( \/ req[r].auth.kind = "HTTPError"
                 \/ ( /\ req[r].feed.kind = "HTTPError"
                      /\ req[r].feed # HTTPError(429) ) )
                   => req[r].response = UpstreamErrorResult

\* C25: a cycle aborted by a failure of the token exchange or of the fetch
\* leaves the history, the seen set, the configuration and the store as they
\* were before it: no step of a cycle up to the answer of the feed changes
\* them.  A token exchange that fails, by an error or by a body without a
\* token, leaves token_cache unchanged.
C25_AbortedCycleFrame ==
    [][\A r \in Requests :
           /\ ( /\ req[r].pc \in {"idle", "done", "L285", "L290"}
                /\ req'[r] # req[r] )
                  => UNCHANGED <<alerts_history, seen_cargo_flights,
                                 alerts_config, store>>
           /\ ( /\ req[r].pc = "L285"
                /\ req'[r] # req[r]
                /\ req'[r].auth # NoError \/ token_cache'.access_token = None )
                  => UNCHANGED token_cache]_vars

\* C26: alert ids are monotonic in the order of the history: of any two
\* entries the later has an id greater than or equal to the id of the
\* earlier, across passes and inside one pass, the clock never going back.
C26_IdsMonotonic ==
    \A j, k \in DOMAIN alerts_history :
        j < k => alerts_history[j].id <= alerts_history[k].id

-----------------------------------------------------------------------------
\* The icao24 of the cargo records of a batch.
CargoIcaos(vs) ==
    { vs[k].icao24 : k \in { j \in DOMAIN vs : vs[j].type = "carga" } }

\* The step is a check_alerts pass, a clear, a read.
PassStep == ops' = ops + 1 /\ lastOp' = "check_alerts"

ClearStep == lastOp' = "clear_alerts" /\ passes_since_clear' = 0 /\ ops' = ops

ReadStep == read' # read

\* C27: the seen set changes in two ways only.  A check_alerts pass with
\* cargo_entry enabled adds the icao24 of the cargo records of its batch and
\* removes none, and clear_alerts empties the set; a pass with cargo_entry
\* disabled, a config update and every read endpoint leave it unchanged.
C27_SeenSetFrame ==
    [][ /\ (PassStep /\ alerts_config.cargo_entry_enabled)
               => seen_cargo_flights' =
                      seen_cargo_flights \cup CargoIcaos(vuelos')
        /\ ClearStep => seen_cargo_flights' = {}
        /\ seen_cargo_flights' # seen_cargo_flights
               => \/ PassStep /\ alerts_config.cargo_entry_enabled
                  \/ ClearStep
        /\ ReadStep => UNCHANGED <<seen_cargo_flights, alerts_history,
                                   alerts_config>> ]_vars

\* A pass with cargo_entry disabled over a batch with a cargo aircraft not
\* yet seen has left a non-empty seen set as it was, and a read endpoint has
\* been served.
C27_Witness ==
    /\ AfterPass
    /\ ~alerts_config.cargo_entry_enabled
    /\ seen_cargo_flights # {}
    /\ seen_cargo_flights = pre_seen
    /\ CargoIcaos(vuelos) \ seen_cargo_flights # {}
    /\ read.op = "export_alerts"

-----------------------------------------------------------------------------
\* The last read answered from the history.
ReadHistory ==
    /\ read.op \in {"get_alerts", "export_alerts", "get_alert_audio"}
    /\ read.views # {}

\* C28: a reader served while a check_alerts pass runs (GET /alerts, export,
\* audio lookup) never meets a history of more than 100 entries nor one
\* holding part of the alerts of a pass: it answers as it would over the
\* history with the append of the pass and the trim to 100 taken as one
\* step.
C28_ReadersSeeWholePasses ==
    ReadHistory =>
        /\ Len(read.alerts) <= HistoryCap
        /\ read.alerts \in read.views

-----------------------------------------------------------------------------
\* No thread is serving a request.
NoOperation == \A r \in Requests : req[r].pc \in {"idle", "done"}

\* C29: whenever no operation is in progress, every icao24 with a
\* cargo_entry alert in the history is in the seen set, and the history
\* never holds two cargo_entry alerts for one icao24, however clear_alerts
\* and check_alerts passes interleave.
C29_HistoryAgreesWithSeen ==
    /\ NoOperation =>
           \A k \in DOMAIN alerts_history :
               alerts_history[k].type = "cargo_entry"
                   => alerts_history[k].icao24 \in seen_cargo_flights
    /\ \A j, k \in DOMAIN alerts_history :
           ( /\ j # k
             /\ alerts_history[j].type = "cargo_entry"
             /\ alerts_history[k].type = "cargo_entry" )
               => alerts_history[j].icao24 # alerts_history[k].icao24

-----------------------------------------------------------------------------
\* Any two alerts of this type in the history, for one aircraft when
\* per_aircraft, have at least n other entries between them.
Separated(type, per_aircraft, n) ==
    \A j, k \in DOMAIN alerts_history :
        ( /\ j < k
          /\ alerts_history[j].type = type
          /\ alerts_history[k].type = type
          /\ per_aircraft => alerts_history[j].icao24 = alerts_history[k].icao24 )
            => k - j - 1 >= n

\* C30: after any sequence of passes, config updates and clears run one at a
\* time, two low_altitude alerts of one icao24 in the history have at least
\* 10 other entries between them, so have two abnormal_speed alerts of one
\* icao24, and two high_count alerts have at least 5; for every batch, also
\* one that lists an icao24 more than once.
C30_DedupSeparation ==
    /\ Separated("low_altitude", TRUE, DedupWindow)
    /\ Separated("abnormal_speed", TRUE, DedupWindow)
    /\ Separated("high_count", FALSE, HighCountWindow)

====
